---------------------------- MODULE Spec2Model ----------------------------
(***************************************************************************)
(* Generation orchestration of the text-to-video platform:                 *)
(*   - ComfyUIService (src/src/pages/AdminPage.tsx): availability probe,   *)
(*     push channel, job submission, history polling with timeout;         *)
(*   - VideoGenerator (src/src/components/VideoGenerator.tsx): the mount   *)
(*     probe, handleGenerate / handleRegenerate and the UI state;          *)
(*   - ComfyUIStatus (src/unnamed/part_000): checkConnection.              *)
(*                                                                         *)
(* JavaScript runs every callback to completion and runs the promise       *)
(* continuations it wakes (microtasks) before the next timer or network    *)
(* event.  An action below is therefore one event of the event loop (a     *)
(* click, a response, a timer firing) together with every continuation it  *)
(* wakes, up to the next await that has to wait for the outside world.     *)
(* Timers carry no wall-clock value: an armed timer may fire at any later  *)
(* moment, which includes every schedule 2000 ms / 300000 ms can produce.  *)
(***************************************************************************)
EXTENDS Naturals, Integers, Sequences, FiniteSets, TLC

\* ------------------------------------------------------------ bounds
\* generateVideo calls started on the service instance
MaxCalls == 2
\* generateVideo calls followed through their history polling
MaxPolledCalls == 1
\* history requests of one call that may be outstanding together
MaxInFlight == 2
\* output nodes in one history entry
MaxNodes == 2
\* characters of a typed prompt
MaxPromptLen == 2
\* events the pipeline sends on the push channel
MaxEvents == 2
\* largest value and max of a progress message
MaxStep == 1
\* open sockets left behind by connectWebSocket
MaxOrphans == 2
\* largest seed Math.random() is taken to give
MaxSeed == 1
\* words of a prompt given to analyzePrompt
MaxWords == 2
\* frames of one procedural generation
MaxFrames == 3

Calls == 1..MaxCalls

\* initialize() calls followed on one LocalVideoGenerationService
MaxInitCalls == 3
InitCalls == 1..MaxInitCalls

VARIABLES
  server,            \* the remote pipeline as the browser sees it: "up" | "cors" | "down"
  mountPc,           \* checkComfyUI of the mount effect: "probe1" | "probe2" | "done"
  comfyUIAvailable,  \* React state of VideoGenerator
  useComfyUI,        \* React state of VideoGenerator
  ccPc,              \* ComfyUIStatus.checkConnection: "unmounted" | "idle" | "probe1" | "probe2" | "models"
  isConnected,       \* React state of ComfyUIStatus
  ccToast,           \* the toast checkConnection raised in its last run
  ccSecond,          \* what the opaque-mode request of that run did: "none" | "opaque" | "throws"
  ui,                \* isGenerating, generatedVideo, progress, statusMessage, toast
  hgPc,              \* handleGenerate: "idle" | "remote" | "proc"
  hgUseComfyUI,      \* useComfyUI as captured by the running handleGenerate closure
  hgBackends,        \* backends the running / last handleGenerate invoked
  hgDownAll,         \* the pipeline was unreachable during the whole running / last handleGenerate
  ws,                \* this.ws: "null" | "connecting" | "open" | "closed"
  progressCallback,  \* this.progressCallback: 0 for null, else the call whose
                     \* onProgress closure it holds
  gvPc,              \* generateVideo: "idle" | "probe1" | "probe2" | "ws" | "queue" | "wait"
  cur,               \* the generateVideo call running or last run (0: none yet)
  gvOutcome,         \* per call: the terminal outcomes handed to the caller, in order
  promise,           \* per call: the promise of waitForCompletion
  intervalArmed,     \* per call: checkInterval is set
  timeoutArmed,      \* per call: the 5 minute timer is pending
  inFlight,          \* per call: GET /history requests not yet answered
  polled,            \* per call: a GET /history request was issued
  queueSeen,         \* per call: what POST /prompt answered ("none" before the answer)
  seen,              \* per call: the first event other than "job not in history yet"
                     \* that reached waitForCompletion ("none" before it)
  gvLog,             \* what the running / last generateVideo call did so far, in order
  chan,              \* push events in flight on the connection of this.ws, oldest first
  emitted,           \* push events the pipeline has sent so far
  delivered,         \* the last callback invocation made by handleWebSocketMessage:
                     \* the event and the callback (id 0 before the first)
  orphans,           \* open sockets this.ws no longer references
  tcPc,              \* runConnectionTest: "unmounted" | "idle" | "probe1" | "probe2" | "models" | "ws"
  testResults,       \* React state of ComfyUITester
  directPrompt,      \* per call: the prompt argument when the call was made on the
                     \* service directly, NotDirect when handleGenerate made it
  workflow,          \* createTextToVideoWorkflow: the arguments and the graph of the last call
  workflowPrev,      \* ... and of the call before it
  style,             \* analyzePrompt: the style descriptor it returned last
  stylePrev,         \* ... and the one before it, when the prompt was edited
  frame,             \* generateFrame: the arguments and the ImageData of the last call
  frameSeen,         \* ... and of an earlier call
  pvPc,              \* procedural generateVideo: "idle" | "feeding" | "stopping" | "stopped"
  pvOptions,         \* the options of the running / last procedural generateVideo
  frames,            \* the list generateFrames returned
  positions,         \* the progress values generateFrames computed, in order
  frameIndex,        \* frameIndex of framesToVideo
  recorder,          \* the MediaRecorder of framesToVideo: "none" | "recording" | "inactive"
  now,               \* ms since framesToVideo started
  presented,         \* the putImageData calls of the feed loop, in order
  stoppedAt,         \* when mediaRecorder.stop() was called (-1: not yet)
  erroredAt,         \* when mediaRecorder.onerror ran (-1: not yet)
  serverUrl,         \* config.serverUrl of the service
  jobOutputs,        \* history[promptId].outputs of the answer last scanned
  locator,           \* how the scan of the outputs settled the promise
  objectUrlLive,     \* the blob URL last handed to VideoGenerator is not revoked
  gtPc,              \* runGenerationTest: "idle" | "insert" | "generate"
  gtRun,             \* the run in progress: its prompt, userId, row and generateVideo call
  gtView,            \* status, videoUrl and the last toast of ComfyUITester
  generation_history, \* the rows of public.generation_history, in order of creation
  isInitialized,     \* LocalVideoGenerationService.isInitialized
  imageGenerator,    \* the pipeline it holds: "null" | "webgpu" | "cpu"
  initPc,            \* per initialize() call: where it stands
  initCaller,        \* per initialize() call: "initialize" | "generateVideo" ("none": not made)
  pipelineLoads,     \* the pipeline(...) calls made, in order
  pvResult           \* how the procedural generateVideo ended

vars == << server, mountPc, comfyUIAvailable, useComfyUI, ccPc, isConnected, ccToast,
           ccSecond, ui, hgPc, hgUseComfyUI, hgBackends, hgDownAll, ws, progressCallback,
           gvPc, cur, gvOutcome, promise, intervalArmed, timeoutArmed,
           inFlight, polled, queueSeen, seen, gvLog, chan, emitted, delivered,
           orphans, tcPc, testResults, directPrompt, workflow, workflowPrev,
           style, stylePrev, frame, frameSeen, pvPc, pvOptions, frames, positions,
           frameIndex, recorder, now, presented, stoppedAt, erroredAt, pvResult,
           serverUrl, jobOutputs, locator, objectUrlLive,
           gtPc, gtRun, gtView, generation_history,
           isInitialized, imageGenerator, initPc, initCaller, pipelineLoads >>

mountVars == << mountPc, comfyUIAvailable, useComfyUI >>
ccVars    == << ccPc, isConnected, ccToast, ccSecond >>
hgVars    == << ui, hgPc, hgUseComfyUI, hgBackends, hgDownAll >>
svcVars   == << ws, progressCallback, gvPc, cur, gvOutcome, gvLog >>
wfcVars   == << promise, intervalArmed, timeoutArmed, inFlight, polled, queueSeen, seen >>
pushVars  == << chan, emitted, delivered >>
testVars  == << orphans, tcPc, testResults >>
callVars  == << directPrompt >>
engineVars == << workflow, workflowPrev, style, stylePrev, frame, frameSeen >>
procVars  == << pvPc, pvOptions, frames, positions, frameIndex, recorder, now, presented,
                stoppedAt, erroredAt, pvResult >>
scanVars  == << serverUrl, jobOutputs, locator >>
artifactVars == << objectUrlLive >>
genTestVars == << gtPc, gtRun, gtView, generation_history >>
loadVars  == << isInitialized, imageGenerator, initPc, initCaller, pipelineLoads >>
lateVars  == << scanVars, artifactVars, genTestVars, loadVars >>

\* ------------------------------------------------------------ messages
\* error messages of the service, as thrown
E_NotRunning == "ComfyUI server is not running. Please start ComfyUI first."
E_WebSocket  == "Failed to connect to ComfyUI WebSocket"
E_Queue      == "Failed to queue prompt: "
E_Workflow   == "Workflow errors: "
E_Status     == "Failed to check generation status"
E_NoVideo    == "No video output found in generation results"
E_Timeout    == "Video generation timeout"
E_Fetch      == "Failed to fetch"
E_Procedural == "Failed to generate video. Please try a different prompt."
E_Cors       == "CORS_ERROR"

\* ------------------------------------------------------------ transport
\* What GET /system_stats in cors mode can do, by the state of the pipeline.  A
\* network failure and a cross-origin rejection both throw a TypeError; its
\* message is "Failed to fetch" in Chromium and another text elsewhere.
CorsFetchOutcomes(s) ==
  IF s = "up" THEN {"ok", "http_error"} ELSE {"failed_to_fetch", "type_error_other"}

\* What the same request in no-cors mode can do: it completes with an opaque
\* response whenever a server answers at all.
NoCorsFetchOutcomes(s) ==
  IF s = "down" THEN {"throws"} ELSE {"opaque"}

\* ------------------------------------------------------------ isServerAvailable
\* The value returned after the cors-mode request: response.ok, or false for a
\* failure that is not retried.
ProbeFirstResult(o1) == o1 = "ok"

\* The catch block retries in no-cors mode only for a TypeError whose message
\* contains 'CORS' or 'Failed to fetch'.
NeedsNoCorsRetry(o1) == o1 = "failed_to_fetch"

\* The outcome of the probe after the no-cors request.  When that request
\* completes, `throw new Error('CORS_ERROR')` is raised inside the inner try and
\* is caught by the inner `catch (corsError)`, which only logs; when it throws,
\* the same catch logs.  Either way control reaches `return false`.
ProbeSecondResult(o2) ==
  [threw |-> FALSE, value |-> FALSE, msg |-> ""]

\* ------------------------------------------------------------ checkComfyUI (mount)
\* setComfyUIAvailable(available); if (available) setUseComfyUI(true)
MountSet(available) ==
  /\ comfyUIAvailable' = available
  /\ useComfyUI' = (IF available THEN TRUE ELSE useComfyUI)
  /\ mountPc' = "done"

MountProbeFirst ==
  /\ mountPc = "probe1"
  /\ \E o1 \in CorsFetchOutcomes(server) :
       IF NeedsNoCorsRetry(o1)
         THEN /\ mountPc' = "probe2"
              /\ UNCHANGED << comfyUIAvailable, useComfyUI >>
         ELSE MountSet(ProbeFirstResult(o1))
  /\ UNCHANGED << server, ccVars, hgVars, svcVars, wfcVars >>
  /\ UNCHANGED << pushVars, testVars >>
  /\ UNCHANGED << callVars, engineVars, procVars, lateVars >>

MountProbeSecond ==
  /\ mountPc = "probe2"
  /\ \E o2 \in NoCorsFetchOutcomes(server) :
       LET r == ProbeSecondResult(o2) IN
         \* the catch of checkComfyUI: setComfyUIAvailable(false)
         MountSet(IF r.threw THEN FALSE ELSE r.value)
  /\ UNCHANGED << server, ccVars, hgVars, svcVars, wfcVars >>
  /\ UNCHANGED << pushVars, testVars >>
  /\ UNCHANGED << callVars, engineVars, procVars, lateVars >>

\* The mode toggle: rendered only when comfyUIAvailable, disabled while generating.
ToggleUseComfyUI ==
  /\ comfyUIAvailable
  /\ ~ui.isGenerating
  /\ useComfyUI' = ~useComfyUI
  /\ UNCHANGED << server, mountPc, comfyUIAvailable, ccVars, hgVars, svcVars, wfcVars >>
  /\ UNCHANGED << pushVars, testVars >>
  /\ UNCHANGED << callVars, engineVars, procVars, lateVars >>

\* ------------------------------------------------------------ checkConnection
\* The result of checkConnection once the probe has returned `available`.
CcAfterProbe(available) ==
  /\ isConnected' = available
  /\ ccPc' = (IF available THEN "models" ELSE "idle")
  /\ UNCHANGED ccToast

\* The catch block of checkConnection for an error with message `msg`.
CcCatch(msg) ==
  /\ isConnected' = FALSE
  /\ ccToast' = (IF msg = E_Cors THEN "cors_blocked" ELSE "could_not_connect")
  /\ ccPc' = "idle"

\* The Refresh button (disabled while isChecking); the mount effect starts the
\* first run, which Init holds in flight.
CheckConnection ==
  /\ ccPc = "idle"
  /\ ccPc' = "probe1"
  /\ ccToast' = "none"
  /\ ccSecond' = "none"
  /\ UNCHANGED << server, isConnected, mountVars, hgVars, svcVars, wfcVars >>
  /\ UNCHANGED << pushVars, testVars >>
  /\ UNCHANGED << callVars, engineVars, procVars, lateVars >>

CcProbeFirst ==
  /\ ccPc = "probe1"
  /\ \E o1 \in CorsFetchOutcomes(server) :
       IF NeedsNoCorsRetry(o1)
         THEN /\ ccPc' = "probe2"
              /\ UNCHANGED << isConnected, ccToast >>
         ELSE CcAfterProbe(ProbeFirstResult(o1))
  /\ UNCHANGED << server, ccSecond, mountVars, hgVars, svcVars, wfcVars >>
  /\ UNCHANGED << pushVars, testVars >>
  /\ UNCHANGED << callVars, engineVars, procVars, lateVars >>

CcProbeSecond ==
  /\ ccPc = "probe2"
  /\ \E o2 \in NoCorsFetchOutcomes(server) :
       LET r == ProbeSecondResult(o2) IN
         /\ ccSecond' = o2
         /\ IF r.threw THEN CcCatch(r.msg) ELSE CcAfterProbe(r.value)
  /\ UNCHANGED << server, mountVars, hgVars, svcVars, wfcVars >>
  /\ UNCHANGED << pushVars, testVars >>
  /\ UNCHANGED << callVars, engineVars, procVars, lateVars >>

\* getModels never throws (its own catch returns []); then toast.success.
CcModels ==
  /\ ccPc = "models"
  /\ ccPc' = "idle"
  /\ ccToast' = "connected"
  /\ UNCHANGED << server, isConnected, ccSecond, mountVars, hgVars, svcVars, wfcVars >>
  /\ UNCHANGED << pushVars, testVars >>
  /\ UNCHANGED << callVars, engineVars, procVars, lateVars >>

\* ------------------------------------------------------------ environment
\* The pipeline starts, stops, or starts rejecting cross-origin calls.
ServerChange ==
  /\ \E s \in {"up", "cors", "down"} \ {server} : server' = s
  /\ hgDownAll' = FALSE
  /\ UNCHANGED << mountVars, ccVars, ui, hgPc, hgUseComfyUI, hgBackends, svcVars, wfcVars >>
  /\ UNCHANGED << pushVars, testVars >>
  /\ UNCHANGED << callVars, engineVars, procVars, lateVars >>

\* ------------------------------------------------------------ values
NoVideo      == [kind |-> "null", node |-> 0]
\* `${normalizedUrl}/view?filename=...` built from the first video of node i
RemoteUrl(i) == [kind |-> "remote", node |-> i]
\* URL.createObjectURL(blob) of the procedural path
BlobUrl      == [kind |-> "blob", node |-> 0]

NoPromise == [state |-> "none", value |-> NoVideo, msg |-> ""]
Pending   == [state |-> "pending", value |-> NoVideo, msg |-> ""]

\* resolve / reject of a promise: the first call settles it, later calls do nothing.
Resolve(p, url) ==
  IF p.state = "pending" THEN [state |-> "resolved", value |-> url, msg |-> ""] ELSE p

Reject(p, m) ==
  IF p.state = "pending" THEN [state |-> "rejected", value |-> NoVideo, msg |-> m] ELSE p

\* ------------------------------------------------------------ numbers
\* A JavaScript number as far as the progress arithmetic needs it: a rational
\* num / den with den > 0, or one of the values a division by zero yields.
Num(n)   == [cls |-> "finite", num |-> n, den |-> 1]
Infinity == [cls |-> "infinity", num |-> 0, den |-> 1]
NaN      == [cls |-> "nan", num |-> 0, den |-> 1]

RECURSIVE Gcd(_, _)
Gcd(a, b) == IF b = 0 THEN a ELSE Gcd(b, a % b)

\* the number n / d (d > 0) in lowest terms: equal numbers are equal values
Ratio(n, d) ==
  [cls |-> "finite", num |-> n \div Gcd(n, d), den |-> d \div Gcd(n, d)]

\* a / b for a, b >= 0
JsDiv(a, b) ==
  IF b # 0 THEN Ratio(a, b)
  ELSE IF a = 0 THEN NaN
  ELSE Infinity

\* x * k for k > 0
JsTimes(x, k) ==
  IF x.cls = "finite" THEN Ratio(x.num * k, x.den) ELSE x

\* ------------------------------------------------------------ prompt
PromptChars == {" ", "a"}

Prompts == UNION { [1..n -> PromptChars] : n \in 0..MaxPromptLen }

RECURSIVE TrimStart(_)
TrimStart(p) ==
  IF p # << >> /\ Head(p) = " " THEN TrimStart(Tail(p)) ELSE p

RECURSIVE TrimEnd(_)
TrimEnd(p) ==
  IF p # << >> /\ p[Len(p)] = " " THEN TrimEnd(SubSeq(p, 1, Len(p) - 1)) ELSE p

\* String.prototype.trim
Trim(p) == TrimEnd(TrimStart(p))

\* ------------------------------------------------------------ handleGenerate: UI state
\* error.message.includes('not running'); the texts the pipeline supplies
\* (statusText, node_errors) are taken not to contain the phrase.
IncludesNotRunning(msg) == msg = E_NotRunning

\* the onProgress closure: setProgress(progress); setStatusMessage(status)
OnProgress(u, pct, status) ==
  [u EXCEPT !.progress = pct, !.statusMessage = status]

\* Variant of HgClearVideo: the previous artifact is left in place.
HgClearVideo_keeps(v) == v

\* setGeneratedVideo(null) at the start of a run
HgClearVideo(v) == NoVideo

\* setIsGenerating(true) ... setStatusMessage('Starting generation...')
HgBegin(u) ==
  [u EXCEPT !.isGenerating = TRUE,
            !.progress = Num(0),
            !.generatedVideo = HgClearVideo(u.generatedVideo),
            !.statusMessage = "Starting generation..."]

HgRemoteSuccess(u, url) ==
  [u EXCEPT !.generatedVideo = url,
            !.progress = Num(100),
            !.statusMessage = "AI video generated successfully!",
            !.toast = "ai_success"]

HgProcSuccess(u, url) ==
  [u EXCEPT !.generatedVideo = url,
            !.progress = Num(100),
            !.statusMessage = "Procedural video generated successfully!",
            !.toast = "proc_success"]

\* Variant of HgCatch: an error other than 'not running' is not reported.
HgCatch_silent(u, useComfy, msg) ==
  IF useComfy /\ IncludesNotRunning(msg)
    THEN [u EXCEPT !.statusMessage = "ComfyUI server not available",
                   !.toast = "not_running"]
    ELSE u

\* the catch block: both branches only report
HgCatch(u, useComfy, msg) ==
  IF useComfy /\ IncludesNotRunning(msg)
    THEN [u EXCEPT !.statusMessage = "ComfyUI server not available",
                   !.toast = "not_running"]
    ELSE [u EXCEPT !.statusMessage = "Generation failed",
                   !.toast = "failed"]

\* finally { setIsGenerating(false) }
HgFinally(u) == [u EXCEPT !.isGenerating = FALSE]

FailureStatuses == {"ComfyUI server not available", "Generation failed"}

\* ------------------------------------------------------------ generateVideo: continuations
NotDirect == << "not_direct" >>

\* The call was made by handleGenerate: its onProgress closure and the code
\* after its await act on the state of VideoGenerator.
ByHandleGenerate(c) == directPrompt[c] = NotDirect

Outcome(kind, url, msg) == [kind |-> kind, value |-> url, msg |-> msg]

\* catch (error) { this.progressCallback = null; throw error; } of generateVideo,
\* then the catch and finally of the awaiting handleGenerate.
GvThrow(msg) ==
  /\ progressCallback' = 0
  /\ gvPc' = "idle"
  /\ gvOutcome' = [gvOutcome EXCEPT ![cur] = Append(@, Outcome("error", NoVideo, msg))]
  /\ ui' = (IF ByHandleGenerate(cur) THEN HgFinally(HgCatch(ui, hgUseComfyUI, msg)) ELSE ui)
  /\ hgPc' = "idle"
  /\ UNCHANGED gvLog

\* onProgress?.(100, ...); return videoUrl; then the success path and finally of
\* the awaiting handleGenerate.  this.progressCallback is left as it is.
GvReturn(url) ==
  /\ gvPc' = "idle"
  /\ gvOutcome' = [gvOutcome EXCEPT ![cur] = Append(@, Outcome("value", url, ""))]
  /\ ui' = (IF ByHandleGenerate(cur)
              THEN HgFinally(HgRemoteSuccess(OnProgress(ui, Num(100), "Video generation complete!"), url))
              ELSE ui)
  /\ hgPc' = "idle"
  /\ gvLog' = gvLog \o << "progress_100", "return" >>
  /\ UNCHANGED progressCallback

\* Variant of GvSubmitSteps: each step is reported after it was taken.
GvSubmitSteps_reportsAfter ==
  << "build_workflow", "progress_10", "post_prompt", "progress_20" >>

\* The steps between the push-channel handshake and the wait for POST /prompt,
\* in program order.
GvSubmitSteps ==
  << "progress_10", "build_workflow", "progress_20", "post_prompt" >>

\* onProgress?.(10, ...); createTextToVideoWorkflow; onProgress?.(20, ...);
\* queuePrompt issues POST /prompt.
GvSubmit ==
  /\ gvPc' = "queue"
  /\ ui' = (IF ByHandleGenerate(cur)
              THEN OnProgress(OnProgress(ui, Num(10), "Creating workflow..."),
                              Num(20), "Queueing generation...")
              ELSE ui)
  /\ gvLog' = gvLog \o GvSubmitSteps
  /\ UNCHANGED << progressCallback, gvOutcome, hgPc >>

\* connectWebSocket up to its await: this.ws = new WebSocket(wsUrl) and the four
\* handlers.  The socket this.ws referenced before is not closed: when it is
\* open it stays open, with its handlers, out of the instance's reach.
ConnectWebSocket ==
  /\ ws' = "connecting"
  /\ orphans' = (IF ws = "open" THEN orphans + 1 ELSE orphans)

\* Variant of NeedsConnect: generateVideo connects on every call.
NeedsConnect_always(w) == TRUE

\* !this.ws || this.ws.readyState !== WebSocket.OPEN
NeedsConnect(w) == w # "open"

\* if (...) await this.connectWebSocket()
GvConnect ==
  IF NeedsConnect(ws)
    THEN /\ ConnectWebSocket
         /\ gvPc' = "ws"
         /\ UNCHANGED << progressCallback, gvOutcome, ui, hgPc, gvLog >>
    ELSE /\ GvSubmit
         /\ UNCHANGED << ws, orphans >>

\* if (!isAvailable) throw new Error('ComfyUI server is not running. ...')
GvAfterProbe(available) ==
  IF available
    THEN GvConnect
    ELSE GvThrow(E_NotRunning) /\ UNCHANGED << ws, orphans >>

\* ------------------------------------------------------------ handleGenerate
\* Variant of ArmCallback: a callback already in the slot is kept.
ArmCallback_keepsPrevious(prev, onProgress) ==
  IF prev # 0 THEN prev ELSE onProgress

\* this.progressCallback = onProgress || null (0 stands for undefined and null)
ArmCallback(prev, onProgress) == onProgress

\* Variant of HgInvoked: the procedural block is not in the else branch.
HgInvoked_both(useComfy, available) ==
  IF useComfy /\ available THEN {"remote", "procedural"} ELSE {"procedural"}

\* The backends one run invokes: if (useComfyUI && comfyUIAvailable) {...} else {...}
HgInvoked(useComfy, available) ==
  IF useComfy /\ available THEN {"remote"} ELSE {"procedural"}

\* handleGenerate run on the UI state u with the prompt p of the text area.
HandleGenerate(u, p) ==
  IF Trim(p) = << >>
    THEN \* toast.error('Please enter a prompt'); return
         /\ ui' = [u EXCEPT !.toast = "enter_prompt"]
         /\ UNCHANGED << hgPc, hgUseComfyUI, hgBackends, hgDownAll, svcVars >>
    ELSE /\ hgUseComfyUI' = useComfyUI
         /\ hgDownAll' = (server = "down")
         /\ hgBackends' = HgInvoked(useComfyUI, comfyUIAvailable)
         /\ IF "remote" \in HgInvoked(useComfyUI, comfyUIAvailable)
              THEN \* comfyUIService.generateVideo(prompt.trim(), {..., onProgress}):
                   \* this.progressCallback = onProgress; the probe is issued
                   /\ cur < MaxCalls
                   /\ ui' = [HgBegin(u) EXCEPT !.toast = "ai_generating"]
                   /\ hgPc' = "remote"
                   /\ cur' = cur + 1
                   /\ progressCallback' = ArmCallback(progressCallback, cur + 1)
                   /\ gvPc' = "probe1"
                   /\ gvLog' = << >>
                   /\ UNCHANGED << ws, gvOutcome >>
              ELSE \* proceduralVideoGeneration.generateVideo({...frames: 30, fps: 10})
                   /\ ui' = [HgBegin(u) EXCEPT !.toast = "proc_generating"]
                   /\ hgPc' = "proc"
                   /\ UNCHANGED svcVars

\* Variant of GenerateDisabled: the in-flight flag does not disable the button.
GenerateDisabled_ignoresFlag(u, p) == Trim(p) = << >>

\* The Generate button: disabled={isGenerating || !prompt.trim()}
GenerateDisabled(u, p) == u.isGenerating \/ Trim(p) = << >>

GenerateClick ==
  /\ \E p \in Prompts :
       /\ ~GenerateDisabled(ui, p)
       /\ HandleGenerate(ui, p)
  /\ UNCHANGED << server, mountVars, ccVars, wfcVars >>
  /\ UNCHANGED << pushVars, testVars >>
  /\ UNCHANGED << callVars, engineVars, procVars, lateVars >>

\* URL.revokeObjectURL(url): a blob URL is released, any other URL is left alone.
RevokeObjectURL(live, url) == IF url = BlobUrl THEN FALSE ELSE live

\* The Regenerate button, rendered when generatedVideo && !isGenerating:
\* revokeObjectURL, setGeneratedVideo(null), handleGenerate() with whatever the
\* text area holds.
HandleRegenerate ==
  /\ ui.generatedVideo # NoVideo
  /\ ~ui.isGenerating
  /\ objectUrlLive' = RevokeObjectURL(objectUrlLive, ui.generatedVideo)
  /\ \E p \in Prompts :
       HandleGenerate([ui EXCEPT !.generatedVideo = NoVideo], p)
  /\ UNCHANGED << server, mountVars, ccVars, wfcVars >>
  /\ UNCHANGED << pushVars, testVars >>
  /\ UNCHANGED << callVars, engineVars, procVars, scanVars, genTestVars, loadVars >>

\* proceduralVideoGeneration.generateVideo resolves with a blob URL ...
ProcResolve ==
  /\ hgPc = "proc"
  /\ ui' = HgFinally(HgProcSuccess(ui, BlobUrl))
  /\ hgPc' = "idle"
  /\ objectUrlLive' = TRUE
  /\ UNCHANGED << server, mountVars, ccVars, hgUseComfyUI, hgBackends, hgDownAll,
                  svcVars, wfcVars >>
  /\ UNCHANGED << pushVars, testVars >>
  /\ UNCHANGED << callVars, engineVars, procVars, scanVars, genTestVars, loadVars >>

\* ... or rejects: every failure inside is rethrown as one Error
ProcReject ==
  /\ hgPc = "proc"
  /\ ui' = HgFinally(HgCatch(ui, hgUseComfyUI, E_Procedural))
  /\ hgPc' = "idle"
  /\ UNCHANGED << server, mountVars, ccVars, hgUseComfyUI, hgBackends, hgDownAll,
                  svcVars, wfcVars >>
  /\ UNCHANGED << pushVars, testVars >>
  /\ UNCHANGED << callVars, engineVars, procVars, lateVars >>

\* comfyUIService.generateVideo(prompt, { onProgress }) called on the service by
\* code other than handleGenerate, with any prompt: the callback is armed and the
\* availability probe is issued; the prompt is not looked at.
GenerateVideoDirect ==
  /\ gvPc = "idle"
  /\ hgPc = "idle"
  /\ cur < MaxCalls
  /\ \E p \in Prompts : directPrompt' = [directPrompt EXCEPT ![cur + 1] = p]
  /\ cur' = cur + 1
  /\ progressCallback' = ArmCallback(progressCallback, cur + 1)
  /\ gvPc' = "probe1"
  /\ gvLog' = << >>
  /\ UNCHANGED << server, mountVars, ccVars, hgVars, ws, gvOutcome, wfcVars, pushVars,
                  testVars, engineVars, procVars, lateVars >>

\* ------------------------------------------------------------ generateVideo: probe
GvProbeFirst ==
  /\ gvPc = "probe1"
  /\ \E o1 \in CorsFetchOutcomes(server) :
       IF NeedsNoCorsRetry(o1)
         THEN /\ gvPc' = "probe2"
              /\ UNCHANGED << ws, orphans, progressCallback, gvOutcome, ui, hgPc, gvLog >>
         ELSE GvAfterProbe(ProbeFirstResult(o1))
  /\ UNCHANGED << server, mountVars, ccVars, hgUseComfyUI, hgBackends, hgDownAll,
                  cur, wfcVars >>
  /\ UNCHANGED << pushVars, tcPc, testResults >>
  /\ UNCHANGED << callVars, engineVars, procVars, lateVars >>

GvProbeSecond ==
  /\ gvPc = "probe2"
  /\ \E o2 \in NoCorsFetchOutcomes(server) :
       LET r == ProbeSecondResult(o2) IN
         IF r.threw
           THEN GvThrow(r.msg) /\ UNCHANGED << ws, orphans >>
           ELSE GvAfterProbe(r.value)
  /\ UNCHANGED << server, mountVars, ccVars, hgUseComfyUI, hgBackends, hgDownAll,
                  cur, wfcVars >>
  /\ UNCHANGED << pushVars, tcPc, testResults >>
  /\ UNCHANGED << callVars, engineVars, procVars, lateVars >>

\* ------------------------------------------------------------ runConnectionTest
NoResults == [server_available |-> FALSE, models_loaded |-> FALSE,
              websocket_connected |-> FALSE, error |-> ""]

\* The Run Connection Test button: disabled={testing}.  setTesting(true);
\* setTestResults(null); the settings row is requested.
RunConnectionTest ==
  /\ tcPc = "idle"
  /\ orphans < MaxOrphans
  /\ tcPc' = "settings"
  /\ testResults' = NoResults
  /\ UNCHANGED << server, mountVars, ccVars, hgVars, svcVars, wfcVars, pushVars, orphans >>
  /\ UNCHANGED << callVars, engineVars, procVars, lateVars >>

\* if (!settings) throw ...: the outer catch stores the error; finally
\* setTesting(false).  Otherwise the probe is issued.
TcSettings ==
  /\ tcPc = "settings"
  /\ \E found \in BOOLEAN :
       IF found
         THEN tcPc' = "probe1" /\ UNCHANGED testResults
         ELSE /\ tcPc' = "idle"
              /\ testResults' = [NoResults EXCEPT !.error = "No settings found"]
  /\ UNCHANGED << server, mountVars, ccVars, hgVars, svcVars, wfcVars, pushVars, orphans >>
  /\ UNCHANGED << callVars, engineVars, procVars, lateVars >>

\* results.server_available = isAvailable; the model and push-channel tests
\* run only if (results.server_available).
TcAfterProbe(available) ==
  /\ testResults' = [testResults EXCEPT !.server_available = available]
  /\ tcPc' = (IF available THEN "models" ELSE "idle")

TcProbeFirst ==
  /\ tcPc = "probe1"
  /\ \E o1 \in CorsFetchOutcomes(server) :
       IF NeedsNoCorsRetry(o1)
         THEN tcPc' = "probe2" /\ UNCHANGED testResults
         ELSE TcAfterProbe(ProbeFirstResult(o1))
  /\ UNCHANGED << server, mountVars, ccVars, hgVars, svcVars, wfcVars, pushVars, orphans >>
  /\ UNCHANGED << callVars, engineVars, procVars, lateVars >>

TcProbeSecond ==
  /\ tcPc = "probe2"
  /\ \E o2 \in NoCorsFetchOutcomes(server) :
       LET r == ProbeSecondResult(o2) IN
         IF r.threw
           THEN /\ testResults' = [testResults EXCEPT !.error = r.msg]
                /\ tcPc' = "idle"
           ELSE TcAfterProbe(r.value)
  /\ UNCHANGED << server, mountVars, ccVars, hgVars, svcVars, wfcVars, pushVars, orphans >>
  /\ UNCHANGED << callVars, engineVars, procVars, lateVars >>

\* results.models_loaded = models.length > 0 (getModels never throws); then
\* await comfyUIService.connectWebSocket(), whatever this.ws holds.
TcModels ==
  /\ tcPc = "models"
  /\ \E loaded \in BOOLEAN :
       testResults' = [testResults EXCEPT !.models_loaded = loaded]
  /\ ConnectWebSocket
  /\ tcPc' = "ws"
  /\ UNCHANGED << server, mountVars, ccVars, hgVars, progressCallback, gvPc, cur,
                  gvOutcome, gvLog, wfcVars, pushVars >>
  /\ UNCHANGED << callVars, engineVars, procVars, lateVars >>

\* The connection test after its connectWebSocket settled: setTestResults(results),
\* finally setTesting(false).
TcFinish(connected, msg) ==
  /\ testResults' = [testResults EXCEPT !.websocket_connected = connected, !.error = msg]
  /\ tcPc' = "idle"

\* ------------------------------------------------------------ push channel
\* ws.onopen: resolve(); a handshake needs a server that answers (the push
\* channel is not subject to the cross-origin policy).
WsOpen ==
  /\ ws = "connecting"
  /\ server # "down"
  /\ ws' = "open"
  /\ IF gvPc = "ws"
       THEN GvSubmit /\ UNCHANGED << tcPc, testResults >>
     ELSE IF tcPc = "ws"
       THEN /\ TcFinish(TRUE, testResults.error)
            /\ UNCHANGED << progressCallback, gvPc, gvOutcome, ui, hgPc, gvLog >>
     ELSE UNCHANGED << progressCallback, gvPc, gvOutcome, ui, hgPc, gvLog, tcPc, testResults >>
  /\ UNCHANGED << server, mountVars, ccVars, hgUseComfyUI, hgBackends, hgDownAll,
                  cur, wfcVars, pushVars, orphans >>
  /\ UNCHANGED << callVars, engineVars, procVars, lateVars >>

\* ws.onerror during the handshake: reject(new Error('Failed to connect ...'));
\* the socket ends CLOSED and stays in this.ws.
WsError ==
  /\ ws = "connecting"
  /\ IF gvPc = "ws"
       THEN GvThrow(E_WebSocket) /\ UNCHANGED << tcPc, testResults >>
     ELSE IF tcPc = "ws"
       THEN /\ TcFinish(FALSE, E_WebSocket)
            /\ UNCHANGED << progressCallback, gvPc, gvOutcome, ui, hgPc, gvLog >>
     ELSE UNCHANGED << progressCallback, gvPc, gvOutcome, ui, hgPc, gvLog, tcPc, testResults >>
  /\ ws' = "closed"
  /\ UNCHANGED << server, mountVars, ccVars, hgUseComfyUI, hgBackends, hgDownAll,
                  cur, wfcVars, pushVars, orphans >>
  /\ UNCHANGED << callVars, engineVars, procVars, lateVars >>

\* ws.onclose of an open connection: only logs; this.ws keeps the closed socket.
\* What was in flight on the connection is lost.
WsClose ==
  /\ ws = "open"
  /\ ws' = "closed"
  /\ chan' = << >>
  /\ UNCHANGED << server, mountVars, ccVars, hgVars, progressCallback, gvPc,
                  cur, gvOutcome, gvLog, wfcVars, emitted, delivered, testVars >>
  /\ UNCHANGED << callVars, engineVars, procVars, lateVars >>

\* The remote end or the network closes a socket the instance left behind.
OrphanClose ==
  /\ orphans > 0
  /\ orphans' = orphans - 1
  /\ UNCHANGED << server, mountVars, ccVars, hgVars, svcVars, wfcVars, pushVars,
                  tcPc, testResults >>
  /\ UNCHANGED << callVars, engineVars, procVars, lateVars >>

\* disconnect(): if (this.ws) { this.ws.close(); this.ws = null; }
\* this.progressCallback = null.  Called by an owner of the instance while no
\* handshake is pending.
Disconnect ==
  /\ ws # "connecting"
  /\ ws' = "null"
  /\ chan' = << >>
  /\ progressCallback' = 0
  /\ UNCHANGED << server, mountVars, ccVars, hgVars, gvPc, cur, gvOutcome, gvLog,
                  wfcVars, emitted, delivered, testVars >>
  /\ UNCHANGED << callVars, engineVars, procVars, lateVars >>

\* The messages the pipeline sends: tagged JSON objects.
Messages ==
  {[type |-> "progress", value |-> v, max |-> m, node |-> FALSE] :
     v \in 0..MaxStep, m \in 0..MaxStep}
  \cup {[type |-> "executing", value |-> 0, max |-> 0, node |-> n] : n \in BOOLEAN}
  \cup {[type |-> "status", value |-> 0, max |-> 0, node |-> FALSE]}

\* handleWebSocketMessage(data): whether it invokes this.progressCallback?.(...),
\* and with which arguments.
WsMessageArgs(m) ==
  CASE m.type = "progress" ->
         [call |-> TRUE, pct |-> JsTimes(JsDiv(m.value, m.max), 100),
          status |-> "Processing: value/max"]
    [] m.type = "executing" /\ m.node ->
         [call |-> TRUE, pct |-> Num(0), status |-> "Executing node: node"]
    [] m.type = "executing" /\ ~m.node ->
         [call |-> TRUE, pct |-> Num(100), status |-> "Generation complete"]
    [] OTHER ->
         [call |-> FALSE, pct |-> Num(0), status |-> ""]

\* The pipeline sends its next event on the client's connection.
PushEmit ==
  /\ ws = "open"
  /\ server # "down"
  /\ emitted < MaxEvents
  /\ emitted' = emitted + 1
  /\ chan' = Append(chan, emitted + 1)
  /\ UNCHANGED << server, mountVars, ccVars, hgVars, svcVars, wfcVars, delivered, testVars >>
  /\ UNCHANGED << callVars, engineVars, procVars, lateVars >>

\* Variant of NextMessage: the newest message in flight is handled first.
NextMessage_newestFirst(q) == Len(q)

\* The message the next onmessage event carries: a connection delivers in the
\* order sent.
NextMessage(q) == 1

\* The queue without its i-th message.
Without(q, i) == SubSeq(q, 1, i - 1) \o SubSeq(q, i + 1, Len(q))

\* ws.onmessage: JSON.parse(event.data); handleWebSocketMessage(data); the
\* callback is the onProgress closure of handleGenerate.
PushDeliver ==
  /\ chan # << >>
  /\ chan' = Without(chan, NextMessage(chan))
  /\ \E m \in Messages :
       LET a == WsMessageArgs(m) IN
         IF a.call /\ progressCallback # 0
           THEN /\ ui' = (IF ByHandleGenerate(progressCallback)
                            THEN OnProgress(ui, a.pct, a.status)
                            ELSE ui)
                /\ delivered' = [id |-> chan[NextMessage(chan)], cb |-> progressCallback]
           ELSE UNCHANGED << ui, delivered >>
  /\ UNCHANGED << server, mountVars, ccVars, hgPc, hgUseComfyUI, hgBackends, hgDownAll,
                  svcVars, wfcVars, emitted, testVars >>
  /\ UNCHANGED << callVars, engineVars, procVars, lateVars >>

\* ------------------------------------------------------------ createTextToVideoWorkflow
\* An input of a node: a literal, or a reference [nodeId, slot] to an output.
Lit(v) == [kind |-> "lit", v |-> v]

Ref(nodeId, slot) == [kind |-> "ref", node |-> nodeId, slot |-> slot]

\* Math.floor(Math.random() * 1000000), within the bound
Seeds == 0..MaxSeed

\* Values of the width and height arguments: the default and another one.
Sizes == {512, 768}

PositiveNode(prompt) ==
  [id |-> "1", class_type |-> "CLIPTextEncode",
   inputs |-> [text |-> Lit(prompt), clip |-> Ref("4", 1)]]

NegativeNode ==
  [id |-> "2", class_type |-> "CLIPTextEncode",
   inputs |-> [text |-> Lit("blurry, low quality, distorted"), clip |-> Ref("4", 1)]]

SamplerNode(seed) ==
  [id |-> "3", class_type |-> "KSampler",
   inputs |-> [seed |-> Lit(seed), steps |-> Lit(20), cfg |-> Lit(7),
               sampler_name |-> Lit("euler"), scheduler |-> Lit("normal"),
               positive |-> Ref("1", 0), negative |-> Ref("2", 0),
               latent_image |-> Ref("5", 0)]]

CheckpointNode ==
  [id |-> "4", class_type |-> "CheckpointLoaderSimple",
   inputs |-> [ckpt_name |-> Lit("sd_xl_base_1.0.safetensors")]]

\* Variant of LatentNode: the two sizes change places.
LatentNode_swapped(width, height) ==
  [id |-> "5", class_type |-> "EmptyLatentImage",
   inputs |-> [width |-> Lit(height), height |-> Lit(width), batch_size |-> Lit(1)]]

LatentNode(width, height) ==
  [id |-> "5", class_type |-> "EmptyLatentImage",
   inputs |-> [width |-> Lit(width), height |-> Lit(height), batch_size |-> Lit(1)]]

\* Variant of DecodeNode: the samples come from the node's own output.
DecodeNode_selfReference ==
  [id |-> "6", class_type |-> "VAEDecode",
   inputs |-> [samples |-> Ref("6", 0), vae |-> Ref("4", 2)]]

DecodeNode ==
  [id |-> "6", class_type |-> "VAEDecode",
   inputs |-> [samples |-> Ref("3", 0), vae |-> Ref("4", 2)]]

CombineNode ==
  [id |-> "7", class_type |-> "VHS_VideoCombine",
   inputs |-> [images |-> Ref("6", 0), frame_rate |-> Lit(10), loop_count |-> Lit(0),
               filename_prefix |-> Lit("ComfyUI_video"), format |-> Lit("video/webm"),
               pix_fmt |-> Lit("yuv420p"), crf |-> Lit(20), save_metadata |-> Lit(TRUE)]]

\* The object literal the builder returns: its nodes in declaration order.  seed
\* is the value Math.random() gave this call.
CreateTextToVideoWorkflow(prompt, width, height, seed) ==
  << PositiveNode(prompt), NegativeNode, SamplerNode(seed), CheckpointNode,
     LatentNode(width, height), DecodeNode, CombineNode >>

NoWorkflow == [prompt |-> << >>, width |-> 0, height |-> 0, graph |-> << >>]

\* One call of the builder.
BuildWorkflow ==
  /\ \E prompt \in Prompts : \E width \in Sizes : \E height \in Sizes : \E seed \in Seeds :
       workflow' = [prompt |-> prompt, width |-> width, height |-> height,
                    graph |-> CreateTextToVideoWorkflow(prompt, width, height, seed)]
  /\ workflowPrev' = workflow
  /\ UNCHANGED << server, mountVars, ccVars, hgVars, svcVars, wfcVars, pushVars, testVars,
                  callVars, style, stylePrev, frame, frameSeen, procVars, lateVars >>

\* ------------------------------------------------------------ analyzePrompt
\* Strings are sequences of characters.
UpperChars == << "A", "B", "C", "D", "E", "F", "G", "H", "I", "J", "K", "L", "M",
                "N", "O", "P", "Q", "R", "S", "T", "U", "V", "W", "X", "Y", "Z" >>

LowerChars == << "a", "b", "c", "d", "e", "f", "g", "h", "i", "j", "k", "l", "m",
                "n", "o", "p", "q", "r", "s", "t", "u", "v", "w", "x", "y", "z" >>

LowerChar(ch) ==
  IF \E i \in DOMAIN UpperChars : UpperChars[i] = ch
    THEN LowerChars[CHOOSE i \in DOMAIN UpperChars : UpperChars[i] = ch]
    ELSE ch

\* String.prototype.toLowerCase
ToLowerCase(str) == [i \in DOMAIN str |-> LowerChar(str[i])]

\* String.prototype.includes
Includes(str, k) ==
  \E i \in 0..(Len(str) - Len(k)) : SubSeq(str, i + 1, i + Len(k)) = k

IncludesAny(str, keywords) == \E k \in keywords : Includes(str, k)

\* The keywords of the if-chains, one set per condition.
WarmKeywords ==
  { << "s", "u", "n", "s", "e", "t" >>,
    << "o", "r", "a", "n", "g", "e" >>,
    << "w", "a", "r", "m" >> }

WaterKeywords ==
  { << "o", "c", "e", "a", "n" >>,
    << "b", "l", "u", "e" >>,
    << "w", "a", "t", "e", "r" >> }

NatureKeywords ==
  { << "n", "a", "t", "u", "r", "e" >>,
    << "g", "r", "e", "e", "n" >>,
    << "f", "o", "r", "e", "s", "t" >> }

FireKeywords ==
  { << "f", "i", "r", "e" >>,
    << "r", "e", "d" >> }

NightKeywords ==
  { << "n", "i", "g", "h", "t" >>,
    << "d", "a", "r", "k" >>,
    << "s", "p", "a", "c", "e" >> }

SpiralKeywords ==
  { << "s", "p", "i", "r", "a", "l" >>,
    << "s", "w", "i", "r", "l" >>,
    << "t", "o", "r", "n", "a", "d", "o" >> }

ParticlesKeywords ==
  { << "p", "a", "r", "t", "i", "c", "l", "e", "s" >>,
    << "s", "t", "a", "r", "s" >>,
    << "s", "p", "a", "r", "k", "l", "e" >> }

GeometricKeywords ==
  { << "g", "e", "o", "m", "e", "t", "r", "i", "c" >>,
    << "a", "b", "s", "t", "r", "a", "c", "t" >> }

WaveKeywords ==
  { << "f", "l", "o", "w", "i", "n", "g" >>,
    << "f", "l", "u", "i", "d" >>,
    << "w", "a", "v", "e" >> }

PulseKeywords ==
  { << "p", "u", "l", "s", "i", "n", "g" >>,
    << "b", "r", "e", "a", "t", "h", "i", "n", "g" >>,
    << "h", "e", "a", "r", "t", "b", "e", "a", "t" >> }

FastKeywords ==
  { << "f", "a", "s", "t" >>,
    << "q", "u", "i", "c", "k" >>,
    << "r", "a", "p", "i", "d" >> }

SlowKeywords ==
  { << "s", "l", "o", "w" >>,
    << "g", "e", "n", "t", "l", "e" >>,
    << "c", "a", "l", "m" >> }

DefaultColors == << "#4338ca", "#7c3aed", "#db2777" >>
WarmColors    == << "#f59e0b", "#ef4444", "#dc2626" >>
WaterColors   == << "#0ea5e9", "#3b82f6", "#1d4ed8" >>
NatureColors  == << "#10b981", "#059669", "#065f46" >>
FireColors    == << "#ef4444", "#dc2626", "#991b1b" >>
NightColors   == << "#1e1b4b", "#312e81", "#3730a3" >>

\* Variant of PaletteOf: the water branch is tested before the warm one.
PaletteOf_waterFirst(lowerPrompt) ==
  IF IncludesAny(lowerPrompt, WaterKeywords) THEN WaterColors
  ELSE IF IncludesAny(lowerPrompt, WarmKeywords) THEN WarmColors
  ELSE IF IncludesAny(lowerPrompt, NatureKeywords) THEN NatureColors
  ELSE IF IncludesAny(lowerPrompt, FireKeywords) THEN FireColors
  ELSE IF IncludesAny(lowerPrompt, NightKeywords) THEN NightColors
  ELSE DefaultColors

\* let colors = [...]; if (...) colors = ... else if ...
PaletteOf(lowerPrompt) ==
  IF IncludesAny(lowerPrompt, WarmKeywords) THEN WarmColors
  ELSE IF IncludesAny(lowerPrompt, WaterKeywords) THEN WaterColors
  ELSE IF IncludesAny(lowerPrompt, NatureKeywords) THEN NatureColors
  ELSE IF IncludesAny(lowerPrompt, FireKeywords) THEN FireColors
  ELSE IF IncludesAny(lowerPrompt, NightKeywords) THEN NightColors
  ELSE DefaultColors

\* let animationType = 'wave'; if (...) animationType = ... else if ...
AnimationTypeOf(lowerPrompt) ==
  IF IncludesAny(lowerPrompt, SpiralKeywords) THEN "spiral"
  ELSE IF IncludesAny(lowerPrompt, ParticlesKeywords) THEN "particles"
  ELSE IF IncludesAny(lowerPrompt, GeometricKeywords) THEN "geometric"
  ELSE IF IncludesAny(lowerPrompt, WaveKeywords) THEN "wave"
  ELSE IF IncludesAny(lowerPrompt, PulseKeywords) THEN "pulse"
  ELSE "wave"

\* Variant of SpeedOf: a slow keyword wins over a fast one.
SpeedOf_slowFirst(lowerPrompt) ==
  IF IncludesAny(lowerPrompt, SlowKeywords) THEN Ratio(1, 2)
  ELSE IF IncludesAny(lowerPrompt, FastKeywords) THEN Num(2)
  ELSE Num(1)

\* let speed = 1; if (...) speed = 2 else if (...) speed = 0.5
SpeedOf(lowerPrompt) ==
  IF IncludesAny(lowerPrompt, FastKeywords) THEN Num(2)
  ELSE IF IncludesAny(lowerPrompt, SlowKeywords) THEN Ratio(1, 2)
  ELSE Num(1)

AnalyzePrompt(prompt) ==
  LET lowerPrompt == ToLowerCase(prompt) IN
    [colors |-> PaletteOf(lowerPrompt),
     animationType |-> AnimationTypeOf(lowerPrompt),
     speed |-> SpeedOf(lowerPrompt),
     prompt |-> prompt]

PaletteKeywords ==
  WarmKeywords \cup WaterKeywords \cup NatureKeywords \cup FireKeywords \cup NightKeywords

KindKeywords ==
  SpiralKeywords \cup ParticlesKeywords \cup GeometricKeywords \cup WaveKeywords
    \cup PulseKeywords

SpeedKeywords == FastKeywords \cup SlowKeywords

\* Words a prompt is written with: the keywords, keywords in capitals, words
\* that hold a keyword inside, and a word that holds none.
OtherWords ==
  { << "S", "u", "n", "s", "e", "t" >>,
    << "O", "C", "E", "A", "N" >>,
    << "h", "u", "n", "d", "r", "e", "d" >>,
    << "s", "w", "a", "r", "m" >>,
    << "b", "r", "e", "a", "k", "f", "a", "s", "t" >>,
    << "v", "i", "d", "e", "o" >> }

Words == PaletteKeywords \cup KindKeywords \cup SpeedKeywords \cup OtherWords

\* The prompts of at most n words, the words one blank apart.
RECURSIVE PromptsOfWords(_)
PromptsOfWords(n) ==
  IF n = 0 THEN { << >> }
  ELSE LET shorter == PromptsOfWords(n - 1) IN
         shorter \cup Words
           \cup { p \o << " " >> \o w : p \in shorter \ { << >> }, w \in Words }

NoStyle == [colors |-> << >>, animationType |-> "none", speed |-> Num(0), prompt |-> << >>]

WordCount(str) == Cardinality({ i \in DOMAIN str : str[i] = " " }) + 1

\* The first analyzePrompt(prompt), for a prompt typed anew
AnalyzeTyped ==
  /\ style = NoStyle
  /\ \E prompt \in PromptsOfWords(MaxWords) : style' = AnalyzePrompt(prompt)
  /\ stylePrev' = NoStyle
  /\ UNCHANGED << server, mountVars, ccVars, hgVars, svcVars, wfcVars, pushVars, testVars,
                  callVars, workflow, workflowPrev, frame, frameSeen, procVars, lateVars >>

\* analyzePrompt(prompt) after a word was added to the prompt analysed last
AnalyzeEdited ==
  /\ style # NoStyle
  /\ style.prompt # << >>
  /\ WordCount(style.prompt) < MaxWords
  /\ \E w \in Words : style' = AnalyzePrompt(style.prompt \o << " " >> \o w)
  /\ stylePrev' = style
  /\ UNCHANGED << server, mountVars, ccVars, hgVars, svcVars, wfcVars, pushVars, testVars,
                  callVars, workflow, workflowPrev, frame, frameSeen, procVars, lateVars >>

\* ------------------------------------------------------------ generateFrame
\* a * b for finite a, b >= 0
RatTimes(a, b) == Ratio(a.num * b.num, a.den * b.den)

RatLess(a, b) == a.num * b.den < b.num * a.den

\* Variant of ClearedCanvas: the canvas of the last render is drawn over.
ClearedCanvas_keepsContent(held, width, height) ==
  [width |-> width, height |-> height, layers |-> held.layers]

\* document.createElement('canvas'), its width and height set, and
\* fillRect(0, 0, width, height) in '#000': whatever canvas was held before,
\* this one is black all over.
ClearedCanvas(held, width, height) ==
  [width |-> width, height |-> height, layers |-> << [shape |-> "fill", count |-> 1,
     time |-> Num(0), colors |-> << "#000" >>] >>]

\* The draw* methods: what they paint is a function of width, height, time and
\* colors (the canvas carries width and height).  count is the number of arcs,
\* squares or curves.
DrawSpiral(time, colors) ==
  [shape |-> "spiral", count |-> 100, time |-> time, colors |-> colors]

DrawParticles(time, colors) ==
  [shape |-> "particles", count |-> 50, time |-> time, colors |-> colors]

DrawGeometric(time, colors) ==
  [shape |-> "geometric", count |-> 6, time |-> time, colors |-> colors]

DrawWave(time, colors) ==
  [shape |-> "wave", count |-> Len(colors), time |-> time, colors |-> colors]

DrawPulse(time, colors) ==
  [shape |-> "pulse", count |-> Len(colors), time |-> time, colors |-> colors]

\* switch (animationType) { ... default: drawWave }
Draw(animationType, time, colors) ==
  CASE animationType = "spiral"    -> DrawSpiral(time, colors)
    [] animationType = "particles" -> DrawParticles(time, colors)
    [] animationType = "geometric" -> DrawGeometric(time, colors)
    [] animationType = "wave"      -> DrawWave(time, colors)
    [] animationType = "pulse"     -> DrawPulse(time, colors)
    [] OTHER                       -> DrawWave(time, colors)

\* progress * Math.PI * 2 * speed, in units of Math.PI
FrameTime(progress, speed) == RatTimes(JsTimes(progress, 2), speed)

\* generateFrame: the ImageData read back from the canvas.  held is the canvas
\* the render before this one left behind.
GenerateFrame(held, visualStyle, width, height, progress) ==
  LET canvas == ClearedCanvas(held, width, height) IN
    [canvas EXCEPT !.layers =
       Append(@, Draw(visualStyle.animationType,
                      FrameTime(progress, visualStyle.speed), visualStyle.colors))]

\* Variant of FrameProgress: the frames are counted from one.
FrameProgress_fromOne(i, frameCount) == JsDiv(i + 1, frameCount)

\* const progress = i / frameCount
FrameProgress(i, frameCount) == JsDiv(i, frameCount)

\* The prompts whose styles are rendered: a word for each animation, a slow
\* one, and no word at all.
RenderPrompts ==
  { << "s", "p", "i", "r", "a", "l" >>,
    << "s", "t", "a", "r", "s" >>,
    << "a", "b", "s", "t", "r", "a", "c", "t" >>,
    << "f", "l", "u", "i", "d" >>,
    << "h", "e", "a", "r", "t", "b", "e", "a", "t" >>,
    << "g", "e", "n", "t", "l", "e" >>,
    << >> }

RenderStyles == { AnalyzePrompt(prompt) : prompt \in RenderPrompts }

\* The timeline positions of the frames of a generation of at most MaxFrames frames.
Positions == UNION { { FrameProgress(i, n) : i \in 0..(n - 1) } : n \in 1..MaxFrames }

NoCanvas == [width |-> 0, height |-> 0, layers |-> << >>]

NoFrame == [style |-> NoStyle, width |-> 0, height |-> 0, progress |-> Num(0),
            image |-> NoCanvas]

\* One generateFrame call; an earlier render stays remembered or this one's
\* predecessor takes its place.
RenderFrame ==
  /\ \E visualStyle \in RenderStyles : \E width \in Sizes : \E progress \in Positions :
       frame' = [style |-> visualStyle, width |-> width, height |-> 512,
                 progress |-> progress,
                 image |-> GenerateFrame(frame.image, visualStyle, width, 512, progress)]
  /\ frameSeen' \in {frameSeen, frame}
  /\ UNCHANGED << server, mountVars, ccVars, hgVars, svcVars, wfcVars, pushVars, testVars,
                  callVars, workflow, workflowPrev, style, stylePrev, procVars, lateVars >>

\* ------------------------------------------------------------ procedural generateVideo
E_NoFrames == "No frames to convert"
E_MediaRecorder == "MediaRecorder error"

\* catch (error) of generateVideo: whatever was caught, one error is thrown.
ProcCatch(error) == E_Procedural

\* The loop of generateFrames from index i on: acc holds the frames pushed and
\* the progress values computed so far, held the canvas of the render before.
RECURSIVE GenerateFramesFrom(_, _, _, _, _, _, _)
GenerateFramesFrom(i, acc, held, visualStyle, width, height, frameCount) ==
  IF i < frameCount
    THEN LET progress == FrameProgress(i, frameCount)
             image == GenerateFrame(held, visualStyle, width, height, progress)
         IN GenerateFramesFrom(i + 1,
                               [frames |-> Append(acc.frames, image),
                                positions |-> Append(acc.positions, progress)],
                               image, visualStyle, width, height, frameCount)
    ELSE acc

GenerateFrames(held, visualStyle, width, height, frameCount) ==
  GenerateFramesFrom(0, [frames |-> << >>, positions |-> << >>], held, visualStyle,
                     width, height, frameCount)

\* Variant of FramesEmpty: the list is never found empty.
FramesEmpty_never(list) == FALSE

\* frames.length === 0
FramesEmpty(list) == Len(list) = 0

\* const frameInterval = 1000 / fps, in ms
FrameInterval(fps) == 1000 \div fps

\* Values of the fps option: the one handleGenerate passes, and another.
FpsValues == {10, 20}

NoResult == [state |-> "none", url |-> NoVideo, duration |-> Num(0), msg |-> "", cause |-> ""]

\* drawFrame() at time t: the next frame is put on the capture canvas and
\* drawFrame is scheduled again, or, with no frame left, the stop is scheduled.
DrawFrame(list, t) ==
  IF frameIndex < Len(list)
    THEN /\ presented' = Append(presented, [index |-> frameIndex, at |-> t,
                                            image |-> list[frameIndex + 1]])
         /\ frameIndex' = frameIndex + 1
         /\ pvPc' = "feeding"
    ELSE /\ pvPc' = "stopping"
         /\ UNCHANGED << presented, frameIndex >>

\* proceduralVideoGeneration.generateVideo(options) up to the first await that
\* waits for a timer: analyzePrompt, generateFrames, and framesToVideo as far
\* as its first drawFrame().  An empty frame list is rejected ahead of the
\* recorder; generateVideo's catch turns every error into one message.
ProcGenerateVideo ==
  /\ pvPc = "idle"
  /\ \E visualStyle \in RenderStyles : \E count \in (-1)..MaxFrames : \E fps \in FpsValues :
       LET out == GenerateFrames(frame.image, visualStyle, 512, 512, count)
       IN /\ pvOptions' = [prompt |-> visualStyle.prompt, width |-> 512, height |-> 512,
                            frames |-> count, fps |-> fps]
          /\ style' = visualStyle
          /\ frames' = out.frames
          /\ positions' = out.positions
          /\ frame' = IF out.frames = << >> THEN frame
                      ELSE [style |-> visualStyle, width |-> 512, height |-> 512,
                            progress |-> out.positions[Len(out.positions)],
                            image |-> out.frames[Len(out.frames)]]
          /\ now' = 0
          /\ stoppedAt' = -1
          /\ erroredAt' = -1
          /\ IF FramesEmpty(out.frames)
               THEN /\ pvResult' = [NoResult EXCEPT !.state = "rejected",
                                                    !.msg = ProcCatch(E_NoFrames),
                                                    !.cause = E_NoFrames]
                    /\ recorder' = "none"
                    /\ presented' = << >>
                    /\ frameIndex' = 0
                    /\ pvPc' = "idle"
               ELSE /\ pvResult' = [NoResult EXCEPT !.state = "pending"]
                    /\ recorder' = "recording"
                    /\ presented' = IF 0 < Len(out.frames)
                                      THEN << [index |-> 0, at |-> 0, image |-> out.frames[1]] >>
                                      ELSE << >>
                    /\ frameIndex' = IF 0 < Len(out.frames) THEN 1 ELSE 0
                    /\ pvPc' = IF 0 < Len(out.frames) THEN "feeding" ELSE "stopping"
  /\ UNCHANGED << server, mountVars, ccVars, hgVars, svcVars, wfcVars, pushVars, testVars,
                  callVars, workflow, workflowPrev, stylePrev, frameSeen, lateVars >>

\* setTimeout(drawFrame, frameInterval) fires
DrawFrameTimer ==
  /\ pvPc = "feeding"
  /\ now' = now + FrameInterval(pvOptions.fps)
  /\ DrawFrame(frames, now')
  /\ UNCHANGED << pvOptions, frames, positions, recorder, stoppedAt, erroredAt, pvResult >>
  /\ UNCHANGED << server, mountVars, ccVars, hgVars, svcVars, wfcVars, pushVars, testVars,
                  callVars, engineVars, lateVars >>

\* setTimeout(() => mediaRecorder.stop(), frameInterval) fires: stop() is called
\* on the recorder, which raises onstop when it was still recording.
StopTimer ==
  /\ pvPc = "stopping"
  /\ now' = now + FrameInterval(pvOptions.fps)
  /\ recorder' = "inactive"
  /\ stoppedAt' = now'
  /\ pvPc' = IF recorder = "recording" THEN "stopped" ELSE "idle"
  /\ UNCHANGED << pvOptions, frames, positions, frameIndex, presented, erroredAt,
                  pvResult >>
  /\ UNCHANGED << server, mountVars, ccVars, hgVars, svcVars, wfcVars, pushVars, testVars,
                  callVars, engineVars, lateVars >>

\* mediaRecorder.onstop: the blob URL resolves the promise of framesToVideo, and
\* generateVideo returns it with duration = frames / fps.
RecorderStop ==
  /\ pvPc = "stopped"
  /\ pvResult' = [NoResult EXCEPT !.state = "resolved", !.url = BlobUrl,
                                  !.duration = JsDiv(pvOptions.frames, pvOptions.fps)]
  /\ pvPc' = "idle"
  /\ UNCHANGED << pvOptions, frames, positions, frameIndex, recorder, now, presented,
                  stoppedAt, erroredAt >>
  /\ UNCHANGED << server, mountVars, ccVars, hgVars, svcVars, wfcVars, pushVars, testVars,
                  callVars, engineVars, lateVars >>

\* mediaRecorder.onerror: the recorder has gone inactive with an error, and
\* reject(new Error('MediaRecorder error')) ends framesToVideo; generateVideo's
\* catch throws in its turn.  The handler touches neither the timers nor
\* frameIndex: the chain of drawFrame timers goes on.
RecorderError ==
  /\ recorder = "recording"
  /\ pvResult.state = "pending"
  /\ recorder' = "inactive"
  /\ erroredAt' = now
  /\ pvResult' = [NoResult EXCEPT !.state = "rejected",
                                  !.msg = ProcCatch(E_MediaRecorder),
                                  !.cause = E_MediaRecorder]
  /\ UNCHANGED << pvPc, pvOptions, frames, positions, frameIndex, now, presented,
                  stoppedAt >>
  /\ UNCHANGED << server, mountVars, ccVars, hgVars, svcVars, wfcVars, pushVars, testVars,
                  callVars, engineVars, lateVars >>

\* ------------------------------------------------------------ queuePrompt
\* What POST /prompt can do: a 2xx answer with an empty or a non-empty
\* node_errors map, a non-2xx answer, or a transport failure.
QueueOutcomes(s) ==
  IF s = "up" THEN {"ok", "node_errors", "http_error"} ELSE {"type_error"}

\* Variant of QueueError: the node_errors map is not inspected.
QueueError_ignoresNodeErrors(o) ==
  CASE o = "ok"          -> ""
    [] o = "http_error"  -> E_Queue
    [] o = "node_errors" -> ""
    [] o = "type_error"  -> E_Fetch

\* The error queuePrompt throws for an outcome ("" when it returns the prompt_id).
QueueError(o) ==
  CASE o = "ok"          -> ""
    [] o = "http_error"  -> E_Queue
    [] o = "node_errors" -> E_Workflow
    [] o = "type_error"  -> E_Fetch

\* waitForCompletion(promptId): the promise is created, setInterval and
\* setTimeout are armed; nothing is requested before the first tick.
StartWait(c) ==
  /\ promise' = [promise EXCEPT ![c] = Pending]
  /\ intervalArmed' = [intervalArmed EXCEPT ![c] = TRUE]
  /\ timeoutArmed' = [timeoutArmed EXCEPT ![c] = TRUE]
  /\ UNCHANGED << inFlight, polled, seen >>

QueueResponse ==
  /\ gvPc = "queue"
  /\ \E o \in QueueOutcomes(server) :
       /\ queueSeen' = [queueSeen EXCEPT ![cur] = o]
       /\ IF QueueError(o) = ""
            THEN \* onProgress?.(30, 'Generation started...'); waitForCompletion
                 /\ ui' = (IF ByHandleGenerate(cur)
                             THEN OnProgress(ui, Num(30), "Generation started...")
                             ELSE ui)
                 /\ gvPc' = "wait"
                 /\ gvLog' = gvLog \o << "progress_30", "await_completion" >>
                 /\ StartWait(cur)
                 /\ UNCHANGED << progressCallback, gvOutcome, hgPc >>
            ELSE /\ GvThrow(QueueError(o))
                 /\ UNCHANGED << promise, intervalArmed, timeoutArmed, inFlight, polled, seen >>
  /\ UNCHANGED << server, mountVars, ccVars, hgUseComfyUI, hgBackends, hgDownAll,
                  ws, cur >>
  /\ UNCHANGED << pushVars, testVars >>
  /\ UNCHANGED << callVars, engineVars, procVars, lateVars >>

\* ------------------------------------------------------------ waitForCompletion
\* A history entry's outputs: per node, in iteration order, the length of its
\* videos list (0: no videos key, or an empty list).
OutputsSet == UNION { [1..n -> {0, 1}] : n \in 0..MaxNodes }

\* What GET /history/{promptId} can do.
HistoryResponses(s) ==
  IF s = "up"
    THEN {[kind |-> "http_error", outputs |-> << >>],
          [kind |-> "no_job", outputs |-> << >>]}
         \cup {[kind |-> "job", outputs |-> o] : o \in OutputsSet}
    ELSE {[kind |-> "type_error", outputs |-> << >>]}

\* for (const nodeId in outputs) if (nodeOutput.videos && nodeOutput.videos.length > 0):
\* the first such node, 0 when there is none.
RECURSIVE FindVideoFrom(_, _)
FindVideoFrom(outputs, i) ==
  IF i > Len(outputs) THEN 0
  ELSE IF outputs[i] > 0 THEN i
  ELSE FindVideoFrom(outputs, i + 1)

FindVideo(outputs) == FindVideoFrom(outputs, 1)

\* The event a history answer is for the waiting call.
EventKind(r) ==
  IF r.kind = "job"
    THEN IF \E i \in DOMAIN r.outputs : r.outputs[i] > 0 THEN "job_video" ELSE "job_no_video"
    ELSE r.kind

\* seen after event e reached call c
Saw(c, e) ==
  [seen EXCEPT ![c] = IF @ = "none" /\ e # "no_job" THEN e ELSE @]

\* Variant of PollEffect: a completed job without a video is polled again.
PollEffect_ignoresEmptyOutputs(r) ==
  CASE r.kind = "type_error" ->
         [clear |-> TRUE, settle |-> "reject", url |-> NoVideo, msg |-> E_Fetch]
    [] r.kind = "http_error" ->
         [clear |-> TRUE, settle |-> "reject", url |-> NoVideo, msg |-> E_Status]
    [] r.kind = "no_job" ->
         [clear |-> FALSE, settle |-> "none", url |-> NoVideo, msg |-> ""]
    [] r.kind = "job" ->
         IF FindVideo(r.outputs) > 0
           THEN [clear |-> TRUE, settle |-> "resolve",
                 url |-> RemoteUrl(FindVideo(r.outputs)), msg |-> ""]
           ELSE [clear |-> FALSE, settle |-> "none", url |-> NoVideo, msg |-> ""]

\* Variant of PollEffect: a non-2xx answer rejects but leaves the interval set.
PollEffect_retriesHttpError(r) ==
  CASE r.kind = "type_error" ->
         [clear |-> TRUE, settle |-> "reject", url |-> NoVideo, msg |-> E_Fetch]
    [] r.kind = "http_error" ->
         [clear |-> FALSE, settle |-> "reject", url |-> NoVideo, msg |-> E_Status]
    [] r.kind = "no_job" ->
         [clear |-> FALSE, settle |-> "none", url |-> NoVideo, msg |-> ""]
    [] r.kind = "job" ->
         IF FindVideo(r.outputs) > 0
           THEN [clear |-> TRUE, settle |-> "resolve",
                 url |-> RemoteUrl(FindVideo(r.outputs)), msg |-> ""]
           ELSE [clear |-> TRUE, settle |-> "reject", url |-> NoVideo, msg |-> E_NoVideo]

\* What the interval callback does once its request is answered with r:
\* whether it clears the interval, and how it calls resolve / reject.
PollEffect(r) ==
  CASE r.kind = "type_error" ->
         \* catch (error) { clearInterval(checkInterval); reject(error); }
         [clear |-> TRUE, settle |-> "reject", url |-> NoVideo, msg |-> E_Fetch]
    [] r.kind = "http_error" ->
         \* if (!response.ok) { clearInterval; reject(...); return; }
         [clear |-> TRUE, settle |-> "reject", url |-> NoVideo, msg |-> E_Status]
    [] r.kind = "no_job" ->
         [clear |-> FALSE, settle |-> "none", url |-> NoVideo, msg |-> ""]
    [] r.kind = "job" ->
         IF FindVideo(r.outputs) > 0
           THEN [clear |-> TRUE, settle |-> "resolve",
                 url |-> RemoteUrl(FindVideo(r.outputs)), msg |-> ""]
           ELSE [clear |-> TRUE, settle |-> "reject", url |-> NoVideo, msg |-> E_NoVideo]

\* Variant of TimeoutEffect: the timer rejects without clearing the interval.
TimeoutEffect_keepsInterval ==
  [clear |-> FALSE, settle |-> "reject", url |-> NoVideo, msg |-> E_Timeout]

\* setTimeout(() => { clearInterval(checkInterval); reject(new Error(...)); }, 300000)
TimeoutEffect ==
  [clear |-> TRUE, settle |-> "reject", url |-> NoVideo, msg |-> E_Timeout]

\* The promise of call c after the effect's resolve / reject call.
Settle(p, eff) ==
  CASE eff.settle = "resolve" -> Resolve(p, eff.url)
    [] eff.settle = "reject"  -> Reject(p, eff.msg)
    [] OTHER                  -> p

\* An effect applied to call c, with the continuation of the generateVideo that
\* awaits the promise when this call settles it.
ApplyEffect(c, eff) ==
  /\ intervalArmed' = [intervalArmed EXCEPT ![c] = IF eff.clear THEN FALSE ELSE @]
  /\ promise' = [promise EXCEPT ![c] = Settle(@, eff)]
  /\ IF promise[c].state = "pending" /\ eff.settle = "resolve"
       THEN GvReturn(eff.url)
     ELSE IF promise[c].state = "pending" /\ eff.settle = "reject"
       THEN GvThrow(eff.msg)
     ELSE UNCHANGED << progressCallback, gvPc, gvOutcome, ui, hgPc, gvLog >>

\* The interval fires: the callback issues GET /history/{promptId}.
IntervalTick(c) ==
  /\ intervalArmed[c]
  /\ inFlight[c] < MaxInFlight
  /\ inFlight' = [inFlight EXCEPT ![c] = @ + 1]
  /\ polled' = [polled EXCEPT ![c] = TRUE]
  /\ UNCHANGED << server, mountVars, ccVars, hgVars, svcVars, promise, intervalArmed,
                  timeoutArmed, queueSeen, seen >>
  /\ UNCHANGED << pushVars, testVars >>
  /\ UNCHANGED << callVars, engineVars, procVars, lateVars >>

\* A history request is answered: the rest of the interval callback runs.
PollResponse(c) ==
  /\ inFlight[c] > 0
  /\ inFlight' = [inFlight EXCEPT ![c] = @ - 1]
  /\ \E r \in HistoryResponses(server) :
       /\ ApplyEffect(c, PollEffect(r))
       /\ seen' = Saw(c, EventKind(r))
  /\ UNCHANGED << server, mountVars, ccVars, hgUseComfyUI, hgBackends, hgDownAll,
                  ws, cur, timeoutArmed, polled, queueSeen >>
  /\ UNCHANGED << pushVars, testVars >>
  /\ UNCHANGED << callVars, engineVars, procVars, lateVars >>

\* The 5 minute timer fires.
TimeoutFire(c) ==
  /\ timeoutArmed[c]
  /\ timeoutArmed' = [timeoutArmed EXCEPT ![c] = FALSE]
  /\ ApplyEffect(c, TimeoutEffect)
  /\ seen' = Saw(c, "timeout")
  /\ UNCHANGED << server, mountVars, ccVars, hgUseComfyUI, hgBackends, hgDownAll,
                  ws, cur, inFlight, polled, queueSeen >>
  /\ UNCHANGED << pushVars, testVars >>
  /\ UNCHANGED << callVars, engineVars, procVars, lateVars >>

\* ------------------------------------------------------------ the scan of the outputs
\* Server addresses, with and without trailing slashes ("h" for the origin).
DefaultServerUrl == << "h" >>
ServerUrls == { << "h" >>, << "h", "/" >>, << "h", "/", "/" >> }

\* serverUrl.replace(/\/+$/, '')
RECURSIVE NormalizeUrl(_)
NormalizeUrl(url) ==
  IF url # << >> /\ url[Len(url)] = "/"
    THEN NormalizeUrl(SubSeq(url, 1, Len(url) - 1))
    ELSE url

\* The entries a videos list can hold.
VideoFiles ==
  { [filename |-> << "a" >>, subfolder |-> << >>,      type |-> << "o" >>],
    [filename |-> << "b" >>, subfolder |-> << "s" >>,  type |-> << "o" >>],
    [filename |-> << "a" >>, subfolder |-> << "s" >>,  type |-> << "t" >>] }

VideoLists == { << >> } \cup { << v >> : v \in VideoFiles }
                \cup { << v, w >> : v, w \in VideoFiles }

\* One node's output: how many images it lists, whether it has a videos key,
\* and the list under that key.
NodeOutputs ==
  { [images |-> n, hasVideos |-> FALSE, videos |-> << >>] : n \in 0..1 }
    \cup { [images |-> n, hasVideos |-> TRUE, videos |-> l] : n \in 0..1, l \in VideoLists }

\* The outputs object of a history entry: node ids are integer keys.
OutputMaps == UNION { [ids -> NodeOutputs] : ids \in SUBSET (1..MaxNodes) }

\* `${normalizedUrl}/view?filename=${video.filename}&subfolder=${video.subfolder}&type=${video.type}`
ViewPath     == << "/", "v", "i", "e", "w", "?", "f", "i", "l", "e", "n", "a", "m", "e", "=" >>
SubfolderKey == << "&", "s", "u", "b", "f", "o", "l", "d", "e", "r", "=" >>
TypeKey      == << "&", "t", "y", "p", "e", "=" >>

ViewUrl(normalizedUrl, video) ==
  normalizedUrl \o ViewPath \o video.filename \o SubfolderKey \o video.subfolder
                \o TypeKey \o video.type

\* Variant of PickVideo: the newest entry of the list.
PickVideo_last(videos) == videos[Len(videos)]

\* const video = nodeOutput.videos[0]
PickVideo(videos) == videos[1]

NoLocator == [settle |-> "none", url |-> << >>, msg |-> ""]

\* for (const nodeId in outputs) over the keys not yet visited: for...in visits
\* integer keys in ascending order.  The first node with a non-empty videos
\* list resolves the promise; with none the promise is rejected.
RECURSIVE ScanFrom(_, _, _)
ScanFrom(url, obj, keys) ==
  IF keys = {}
    THEN [NoLocator EXCEPT !.settle = "reject", !.msg = E_NoVideo]
    ELSE LET nodeId == CHOOSE k \in keys : \A j \in keys : k <= j
             nodeOutput == obj[nodeId]
         IN IF nodeOutput.hasVideos /\ Len(nodeOutput.videos) > 0
              THEN [NoLocator EXCEPT !.settle = "resolve",
                                     !.url = ViewUrl(NormalizeUrl(url),
                                                     PickVideo(nodeOutput.videos))]
              ELSE ScanFrom(url, obj, keys \ {nodeId})

\* The interval callback of waitForCompletion on a history answer that holds
\* the job: the outputs are scanned once, and the promise is settled.
ScanOutputs ==
  /\ locator = NoLocator
  /\ \E url \in ServerUrls : \E obj \in OutputMaps :
       /\ serverUrl' = url
       /\ jobOutputs' = obj
       /\ locator' = ScanFrom(url, obj, DOMAIN obj)
  /\ UNCHANGED << server, mountVars, ccVars, hgVars, svcVars, wfcVars, pushVars, testVars,
                  callVars, engineVars, procVars, artifactVars, genTestVars, loadVars >>

\* ------------------------------------------------------------ runGenerationTest
\* Users of the application; the session is that of AuthUid.
Users == {"u1", "u2"}
AuthUid == "u1"

\* The policies created on public.generation_history, by command.
HistoryPolicies == {"SELECT", "INSERT"}

\* Row level security is enabled on the table: a command passes for a row when
\* one of its policies is for that command and auth.uid() = user_id holds.
RlsAllows(cmd, uid, row) == cmd \in HistoryPolicies /\ uid = row.user_id

\* .insert({ user_id: userId, prompt, status: 'pending', settings: { test: true } })
HistoryRow(userId, prompt) ==
  [user_id |-> userId, prompt |-> prompt, status |-> "pending", video_url |-> NoVideo,
   generation_time |-> -1]

\* What the insert can answer: an error for a row the policy rejects, otherwise
\* the row or a transport error.
InsertOutcomes(uid, row) ==
  IF RlsAllows("INSERT", uid, row) THEN {"ok", "fetch_error"} ELSE {"rls_error"}

\* endTime - startTime in ms, within the bound
GenerationTimes == {0, 1}

\* .update({ status: 'completed', video_url, generation_time }).eq('id', id):
\* the rows the policies let the session update are changed; for the others
\* nothing is changed and no error is returned.
UpdateCompleted(table, uid, id, url, time) ==
  [i \in DOMAIN table |->
     IF i = id /\ RlsAllows("UPDATE", uid, table[i])
       THEN [table[i] EXCEPT !.status = "completed", !.video_url = url,
                             !.generation_time = time]
       ELSE table[i]]

NoRun == [prompt |-> << >>, userId |-> AuthUid, row |-> 0, call |-> 0]

\* The Generate Test Video button (disabled={generating}): a blank prompt is
\* answered by a toast; otherwise the view is reset and the insert is issued.
\* The values onProgress sets during the call are not followed.
RunGenerationTest ==
  /\ gtPc = "idle"
  /\ gvPc = "idle" /\ hgPc = "idle"
  /\ cur < MaxCalls
  /\ \E prompt \in Prompts : \E userId \in Users :
       IF Trim(prompt) = << >>
         THEN /\ gtView' = [gtView EXCEPT !.toast = "enter_prompt"]
              /\ UNCHANGED << gtPc, gtRun >>
         ELSE /\ gtPc' = "insert"
              /\ gtRun' = [NoRun EXCEPT !.prompt = prompt, !.userId = userId]
              /\ gtView' = [gtView EXCEPT !.status = "Starting generation...",
                                          !.videoUrl = NoVideo]
  /\ UNCHANGED << server, mountVars, ccVars, hgVars, svcVars, wfcVars, pushVars, testVars,
                  callVars, engineVars, procVars, scanVars, artifactVars,
                  generation_history, loadVars >>

\* The insert is answered.  if (insertError) throw insertError: the catch
\* reports, finally setGenerating(false).  Otherwise the row exists with
\* status 'pending' and comfyUIService.generateVideo(prompt, { onProgress })
\* runs up to its first await: the callback is armed and the probe is issued.
GtInsertResponse ==
  /\ gtPc = "insert"
  /\ \E o \in InsertOutcomes(AuthUid, HistoryRow(gtRun.userId, gtRun.prompt)) :
       IF o = "ok"
         THEN /\ generation_history' = Append(generation_history,
                                              HistoryRow(gtRun.userId, gtRun.prompt))
              /\ gtRun' = [gtRun EXCEPT !.row = Len(generation_history) + 1,
                                        !.call = cur + 1]
              /\ gtPc' = "generate"
              /\ directPrompt' = [directPrompt EXCEPT ![cur + 1] = gtRun.prompt]
              /\ cur' = cur + 1
              /\ progressCallback' = ArmCallback(progressCallback, cur + 1)
              /\ gvPc' = "probe1"
              /\ gvLog' = << >>
              /\ UNCHANGED gtView
         ELSE /\ gtPc' = "idle"
              /\ gtView' = [gtView EXCEPT !.status = "Error", !.toast = "failed"]
              /\ UNCHANGED << generation_history, gtRun, directPrompt, cur,
                              progressCallback, gvPc, gvLog >>
  /\ UNCHANGED << server, mountVars, ccVars, hgVars, ws, gvOutcome, wfcVars, pushVars,
                  testVars, engineVars, procVars, scanVars, artifactVars, loadVars >>

\* The generateVideo call of the run has settled.  With a URL the row is
\* updated, setVideoUrl and the success toast follow; with an error the catch
\* reports it.  finally setGenerating(false).
GtGenerated ==
  /\ gtPc = "generate"
  /\ gvPc = "idle"
  /\ Len(gvOutcome[gtRun.call]) = 1
  /\ LET settled == gvOutcome[gtRun.call][1] IN
       IF settled.kind = "value"
         THEN \E generationTime \in GenerationTimes :
                /\ generation_history' =
                     UpdateCompleted(generation_history, AuthUid, gtRun.row,
                                     settled.value, generationTime)
                /\ gtView' = [gtView EXCEPT !.videoUrl = settled.value,
                                            !.toast = "successful"]
         ELSE /\ gtView' = [gtView EXCEPT !.status = "Error", !.toast = "failed"]
              /\ UNCHANGED generation_history
  /\ gtPc' = "idle"
  /\ UNCHANGED gtRun
  /\ UNCHANGED << server, mountVars, ccVars, hgVars, svcVars, wfcVars, pushVars, testVars,
                  callVars, engineVars, procVars, scanVars, artifactVars, loadVars >>

\* ------------------------------------------------------------ LocalVideoGenerationService.initialize
E_Initialize == "Failed to initialize video generation models"

\* if (this.isInitialized) return
AlreadyInitialized(flag) == flag

\* await pipeline(..., { device }) is started by call c
StartLoad(c, device) == pipelineLoads' = Append(pipelineLoads, [call |-> c, device |-> device])

\* What follows the await of initialize() in its caller: generateVideo goes on
\* to its frames (not followed further), a direct call is over.
AfterInitialize(caller) == IF caller = "generateVideo" THEN "generating" ELSE "done"

\* initialize() is called, by itself or as the first statement of
\* generateVideo: it returns at once when isInitialized is set, and otherwise
\* starts the WebGPU load and waits for it.
Initialize ==
  /\ \E c \in InitCalls : \E caller \in {"initialize", "generateVideo"} :
       /\ initPc[c] = "none"
       /\ \A b \in InitCalls : b < c => initPc[b] # "none"
       /\ initCaller' = [initCaller EXCEPT ![c] = caller]
       /\ IF AlreadyInitialized(isInitialized)
            THEN /\ initPc' = [initPc EXCEPT ![c] = AfterInitialize(caller)]
                 /\ UNCHANGED pipelineLoads
            ELSE /\ initPc' = [initPc EXCEPT ![c] = "webgpu"]
                 /\ StartLoad(c, "webgpu")
  /\ UNCHANGED << isInitialized, imageGenerator >>
  /\ UNCHANGED << server, mountVars, ccVars, hgVars, svcVars, wfcVars, pushVars, testVars,
                  callVars, engineVars, procVars, scanVars, artifactVars, genTestVars >>

\* The WebGPU load of call c settles: the pipeline is stored and isInitialized
\* set, or the catch starts the CPU load.
WebgpuSettled ==
  /\ \E c \in InitCalls : \E loaded \in BOOLEAN :
       /\ initPc[c] = "webgpu"
       /\ IF loaded
            THEN /\ imageGenerator' = "webgpu"
                 /\ isInitialized' = TRUE
                 /\ initPc' = [initPc EXCEPT ![c] = AfterInitialize(initCaller[c])]
                 /\ UNCHANGED pipelineLoads
            ELSE /\ initPc' = [initPc EXCEPT ![c] = "cpu"]
                 /\ StartLoad(c, "cpu")
                 /\ UNCHANGED << imageGenerator, isInitialized >>
  /\ UNCHANGED initCaller
  /\ UNCHANGED << server, mountVars, ccVars, hgVars, svcVars, wfcVars, pushVars, testVars,
                  callVars, engineVars, procVars, scanVars, artifactVars, genTestVars >>

\* The CPU load of call c settles: the pipeline is stored and isInitialized
\* set, or the inner catch throws and the call is rejected.
CpuSettled ==
  /\ \E c \in InitCalls : \E loaded \in BOOLEAN :
       /\ initPc[c] = "cpu"
       /\ IF loaded
            THEN /\ imageGenerator' = "cpu"
                 /\ isInitialized' = TRUE
                 /\ initPc' = [initPc EXCEPT ![c] = AfterInitialize(initCaller[c])]
            ELSE \* throw new Error(E_Initialize)
                 /\ initPc' = [initPc EXCEPT ![c] = "threw"]
                 /\ UNCHANGED << imageGenerator, isInitialized >>
  /\ UNCHANGED << initCaller, pipelineLoads >>
  /\ UNCHANGED << server, mountVars, ccVars, hgVars, svcVars, wfcVars, pushVars, testVars,
                  callVars, engineVars, procVars, scanVars, artifactVars, genTestVars >>

\* ------------------------------------------------------------ specification
\* State after construction of the service and the first render of
\* VideoGenerator: the mount effect has issued its probe.
InitCommon ==
  /\ server \in {"up", "cors", "down"}
  /\ mountPc = "probe1"
  /\ comfyUIAvailable = FALSE
  /\ useComfyUI = FALSE
  /\ isConnected = FALSE
  /\ ccToast = "none"
  /\ ccSecond = "none"
  /\ ui = [isGenerating |-> FALSE, generatedVideo |-> NoVideo, progress |-> Num(0),
           statusMessage |-> "", toast |-> "none"]
  /\ hgPc = "idle"
  /\ hgUseComfyUI = FALSE
  /\ hgBackends = {}
  /\ hgDownAll = FALSE
  /\ ws = "null"
  /\ progressCallback = 0
  /\ gvPc = "idle"
  /\ cur = 0
  /\ gvOutcome = [c \in Calls |-> << >>]
  /\ promise = [c \in Calls |-> NoPromise]
  /\ intervalArmed = [c \in Calls |-> FALSE]
  /\ timeoutArmed = [c \in Calls |-> FALSE]
  /\ inFlight = [c \in Calls |-> 0]
  /\ polled = [c \in Calls |-> FALSE]
  /\ queueSeen = [c \in Calls |-> "none"]
  /\ seen = [c \in Calls |-> "none"]
  /\ gvLog = << >>
  /\ chan = << >>
  /\ emitted = 0
  /\ delivered = [id |-> 0, cb |-> 0]
  /\ orphans = 0
  /\ testResults = NoResults
  /\ directPrompt = [c \in Calls |-> NotDirect]
  /\ workflow = NoWorkflow
  /\ workflowPrev = NoWorkflow
  /\ style = NoStyle
  /\ stylePrev = NoStyle
  /\ frame = NoFrame
  /\ frameSeen = NoFrame
  /\ pvPc = "idle"
  /\ pvOptions = [prompt |-> << >>, width |-> 512, height |-> 512, frames |-> 30,
                  fps |-> 10]
  /\ frames = << >>
  /\ positions = << >>
  /\ frameIndex = 0
  /\ recorder = "none"
  /\ now = 0
  /\ presented = << >>
  /\ stoppedAt = -1
  /\ erroredAt = -1
  /\ pvResult = NoResult
  /\ serverUrl = DefaultServerUrl
  /\ jobOutputs = << >>
  /\ locator = NoLocator
  /\ objectUrlLive = FALSE
  /\ gtPc = "idle"
  /\ gtRun = NoRun
  /\ gtView = [status |-> "", videoUrl |-> NoVideo, toast |-> "none"]
  /\ generation_history = << >>
  /\ isInitialized = FALSE
  /\ imageGenerator = "null"
  /\ initPc = [c \in InitCalls |-> "none"]
  /\ initCaller = [c \in InitCalls |-> "none"]
  /\ pipelineLoads = << >>

\* The generator page: ComfyUIStatus is not rendered.
Init ==
  /\ InitCommon
  /\ ccPc = "unmounted"
  /\ tcPc = "unmounted"

Next ==
  \/ ServerChange
  \/ MountProbeFirst
  \/ MountProbeSecond
  \/ ToggleUseComfyUI
  \/ GenerateClick /\ cur' <= MaxPolledCalls
  \/ HandleRegenerate /\ cur' <= MaxPolledCalls
  \/ ProcResolve
  \/ ProcReject
  \/ GvProbeFirst
  \/ GvProbeSecond
  \/ WsOpen
  \/ WsError
  \/ WsClose
  \/ QueueResponse
  \/ \E c \in Calls : IntervalTick(c)
  \/ \E c \in Calls : PollResponse(c)
  \/ \E c \in Calls : TimeoutFire(c)

\* The pull side of a generation: the calls are followed through probe,
\* handshake, submission and history polling.
Spec == Init /\ [][Next]_vars

\* The status card mounted beside the generator, before any generation is
\* started: its mount effect has issued checkConnection's probe.
InitStatus ==
  /\ InitCommon
  /\ ccPc = "probe1"
  /\ tcPc = "unmounted"

NextStatus ==
  \/ ServerChange
  \/ MountProbeFirst
  \/ MountProbeSecond
  \/ ToggleUseComfyUI
  \/ CheckConnection
  \/ CcProbeFirst
  \/ CcProbeSecond
  \/ CcModels

SpecStatus == InitStatus /\ [][NextStatus]_vars

\* The generator page over several generations, one after the other.
NextRepeat ==
  \/ MountProbeFirst
  \/ MountProbeSecond
  \/ GenerateClick
  \/ HandleRegenerate
  \/ ProcResolve
  \/ ProcReject
  \/ GvProbeFirst
  \/ WsOpen
  \/ WsError
  \/ WsClose
  \/ QueueResponse
  \/ \E c \in Calls : IntervalTick(c)
  \/ \E c \in Calls : PollResponse(c)
  \/ \E c \in Calls : TimeoutFire(c)

SpecRepeat == Init /\ [][NextRepeat]_vars

\* The generator page with the push channel, from the moment the mount probe
\* has found the pipeline: the remote mode is on, and the pipeline sends events
\* on the connection while a generation runs and after it.
InitPush ==
  /\ Init
  /\ server = "up"

MountedRemote == mountPc = "done" /\ comfyUIAvailable /\ useComfyUI

NextPush ==
  \/ MountProbeFirst
  \/ GenerateClick /\ MountedRemote /\ cur' <= MaxPolledCalls
  \/ GvProbeFirst
  \/ WsOpen
  \/ WsError
  \/ WsClose
  \/ QueueResponse
  \/ \E c \in Calls : IntervalTick(c)
  \/ \E c \in Calls : PollResponse(c)
  \/ \E c \in Calls : TimeoutFire(c)
  \/ PushEmit
  \/ PushDeliver

SpecPush == InitPush /\ [][NextPush]_vars

\* The same over several generations.
NextPushRepeat ==
  \/ MountProbeFirst
  \/ GenerateClick /\ MountedRemote
  \/ GvProbeFirst
  \/ WsOpen
  \/ WsError
  \/ WsClose
  \/ QueueResponse
  \/ \E c \in Calls : IntervalTick(c)
  \/ \E c \in Calls : PollResponse(c)
  \/ \E c \in Calls : TimeoutFire(c)
  \/ PushEmit
  \/ PushDeliver

SpecPushRepeat == InitPush /\ [][NextPushRepeat]_vars

\* The setup page: ComfyUITester runs connection tests on the shared instance,
\* and an owner of the instance may call disconnect().
InitTester ==
  /\ InitCommon
  /\ ccPc = "unmounted"
  /\ tcPc = "idle"

NextTester ==
  \/ ServerChange
  \/ RunConnectionTest
  \/ TcSettings
  \/ TcProbeFirst
  \/ TcProbeSecond
  \/ TcModels
  \/ WsOpen
  \/ WsError
  \/ WsClose
  \/ OrphanClose
  \/ Disconnect

SpecTester == InitTester /\ [][NextTester]_vars

\* The service used by the generator page and by other code calling
\* generateVideo on it with a prompt of its own.
NextDirect ==
  \/ MountProbeFirst
  \/ MountProbeSecond
  \/ GenerateClick /\ cur' <= MaxPolledCalls
  \/ HandleRegenerate /\ cur' <= MaxPolledCalls
  \/ ProcResolve
  \/ ProcReject
  \/ GenerateVideoDirect /\ cur' <= MaxPolledCalls
  \/ GvProbeFirst
  \/ GvProbeSecond
  \/ WsOpen
  \/ WsError
  \/ QueueResponse
  \/ \E c \in Calls : IntervalTick(c)
  \/ \E c \in Calls : PollResponse(c)
  \/ \E c \in Calls : TimeoutFire(c)

SpecDirect == Init /\ [][NextDirect]_vars

\* The generator page with the pipeline down: it plays no part in what the
\* workflow builder and the procedural engine compute.
InitStyle ==
  /\ Init
  /\ server = "down"

\* The workflow builder called again and again with any arguments.
SpecWorkflow == InitStyle /\ [][BuildWorkflow]_vars

\* analyzePrompt applied to prompts typed and edited.
NextStyle ==
  \/ AnalyzeTyped
  \/ AnalyzeEdited

SpecStyle == InitStyle /\ [][NextStyle]_vars

\* generateFrame called again and again.
SpecRender == InitStyle /\ [][RenderFrame]_vars

\* The procedural engine called with any options, one generation after another.
NextProcedural ==
  \/ ProcGenerateVideo
  \/ DrawFrameTimer
  \/ StopTimer
  \/ RecorderStop
  \/ RecorderError

SpecProcedural == InitStyle /\ [][NextProcedural]_vars

\* History answers of completed jobs, each scanned for its video.
SpecOutputs == InitStyle /\ [][ScanOutputs]_vars

\* The setup page running generation tests on the shared service.
NextGenerationTest ==
  \/ RunGenerationTest
  \/ GtInsertResponse
  \/ GtGenerated
  \/ GvProbeFirst
  \/ GvProbeSecond
  \/ WsOpen
  \/ WsError
  \/ QueueResponse
  \/ \E c \in Calls : IntervalTick(c)
  \/ \E c \in Calls : PollResponse(c)
  \/ \E c \in Calls : TimeoutFire(c)

SpecGenerationTest == Init /\ [][NextGenerationTest]_vars

\* One LocalVideoGenerationService whose initialize and generateVideo are
\* called at any time, also while an earlier call waits for its load.
NextInitialize ==
  \/ Initialize
  \/ WebgpuSettled
  \/ CpuSettled

SpecInitialize == Init /\ [][NextInitialize]_vars

\* Timers fire: an armed interval and an armed timeout are eventually served.
\* Nothing obliges the pipeline to answer a request or a handshake.
FairSpec ==
  /\ Spec
  /\ \A c \in Calls : WF_vars(IntervalTick(c))
  /\ \A c \in Calls : WF_vars(TimeoutFire(c))

\* ------------------------------------------------------------ consistency
\* The shape of the state and the links between the processes that the
\* actions rely on.
ModelOK ==
  /\ server \in {"up", "cors", "down"}
  /\ cur \in 0..MaxCalls
  /\ ui.isGenerating = (hgPc # "idle")
  /\ (gvPc # "idle") => (hgPc = "remote" /\ cur \in Calls)
  /\ (hgPc = "remote") => (gvPc # "idle")
  /\ \A c \in Calls :
       /\ inFlight[c] \in 0..MaxInFlight
       /\ (promise[c].state = "pending") = (c = cur /\ gvPc = "wait")
       /\ (c > cur) => (promise[c] = NoPromise /\ gvOutcome[c] = << >>)
       /\ intervalArmed[c] => promise[c].state = "pending"

\* ------------------------------------------------------------ claims
Finished(c) == c < cur \/ (c = cur /\ gvPc = "idle")

Failed(c, m) == gvOutcome[c] = << Outcome("error", NoVideo, m) >>

\* C1: a generation issued while the pipeline is unreachable falls back to the
\* procedural engine, and no 'server not running' failure reaches the user,
\* whatever the mount probe returned.
C1_FallbackWhenUnreachable ==
  (hgPc = "idle" /\ hgBackends # {} /\ hgDownAll)
    => ("procedural" \in hgBackends /\ ui.toast # "not_running"
        /\ ui.statusMessage # "ComfyUI server not available")

\* C2: the probe tells three outcomes apart for its caller checkConnection: a
\* 2xx answer is "connected"; a network failure followed by an opaque request
\* that completes is reported as CORS-blocked; failure of both is plain
\* unavailability.
C2_ProbeThreeOutcomes ==
  /\ (ccPc = "idle" /\ ccToast = "connected") => isConnected
  /\ (ccPc = "idle" /\ ccSecond = "throws") => (~isConnected /\ ccToast # "cors_blocked")
  /\ (ccPc = "idle" /\ ccSecond = "opaque") => (~isConnected /\ ccToast = "cors_blocked")

\* C3: at most one GET /history request of a call is in flight at any moment.
C3_PollsNeverOverlap ==
  \A c \in Calls : inFlight[c] <= 1

\* C4: a remote run that fails with an error other than 'server not running'
\* ends in the failure state, with no artifact, and the procedural engine is
\* not invoked in that run.
C4_RemoteErrorNoFallback ==
  /\ (hgPc = "remote") => (hgBackends = {"remote"})
  /\ (/\ hgPc = "idle"
      /\ "remote" \in hgBackends
      /\ Len(gvOutcome[cur]) = 1
      /\ gvOutcome[cur][1].kind = "error"
      /\ gvOutcome[cur][1].msg # E_NotRunning)
       => /\ hgBackends = {"remote"}
          /\ ui.statusMessage = "Generation failed"
          /\ ui.toast = "failed"
          /\ ui.generatedVideo = NoVideo
          /\ ~ui.isGenerating

C4_Witness ==
  /\ hgPc = "idle"
  /\ hgBackends = {"remote"}
  /\ \E m \in {E_Workflow, E_Status, E_NoVideo, E_Timeout} : Failed(cur, m)

\* C5: every generateVideo call hands its caller exactly one terminal outcome,
\* the one of the first settling event (later resolve / reject calls change
\* nothing), and after a handleGenerate run with a non-empty prompt the UI holds
\* an artifact exactly when it shows no failure status.
C5_ExactlyOneOutcome ==
  /\ \A c \in Calls :
       /\ Len(gvOutcome[c]) <= 1
       /\ Finished(c) => Len(gvOutcome[c]) = 1
       /\ (c = cur /\ gvPc # "idle") => gvOutcome[c] = << >>
       /\ (promise[c].state = "resolved")
            => (gvOutcome[c] = << Outcome("value", promise[c].value, "") >>
                /\ seen[c] = "job_video")
       /\ (promise[c].state = "rejected")
            => (Failed(c, promise[c].msg)
                /\ seen[c] \in {"timeout", "http_error", "type_error", "job_no_video"})
       /\ (seen[c] = "timeout") => promise[c].msg = E_Timeout
       /\ (seen[c] # "timeout") => promise[c].msg # E_Timeout
  /\ (hgPc = "idle" /\ hgBackends # {} /\ ui.toast # "enter_prompt")
       => ((ui.generatedVideo # NoVideo) <=> (ui.statusMessage \notin FailureStatuses))

\* the timeout fired after a history answer had resolved the promise
C5_Witness ==
  \E c \in Calls :
    /\ promise[c].state = "resolved"
    /\ ~timeoutArmed[c]
    /\ c = cur
    /\ hgPc = "idle"
    /\ ui.generatedVideo = promise[c].value

\* C6: every generateVideo call that was started eventually reaches its
\* terminal outcome.
C6_EveryCallTerminates ==
  \A c \in Calls : (cur = c) ~> (Len(gvOutcome[c]) = 1)

\* C7: when the timeout fires on a call no earlier event has settled, the call
\* rejects with the timeout error, and once the timeout has fired no further
\* history request is issued for that call.
C7_TimeoutStopsPolling ==
  [][\A c \in Calls :
       /\ (timeoutArmed[c] /\ ~timeoutArmed'[c] /\ promise[c].state = "pending")
            => /\ promise'[c] = [state |-> "rejected", value |-> NoVideo, msg |-> E_Timeout]
               /\ Failed(c, E_Timeout)'
               /\ ~intervalArmed'[c]
       /\ (promise[c].state # "none" /\ ~timeoutArmed[c])
            => (inFlight'[c] <= inFlight[c] /\ ~intervalArmed'[c])]_vars

\* the timeout ended a call whose history requests were still unanswered
C7_Witness ==
  \E c \in Calls :
    /\ seen[c] = "timeout"
    /\ Failed(c, E_Timeout)
    /\ polled[c]
    /\ inFlight[c] > 0

\* C8: when a history answer that reaches a waiting call holds the job but no
\* node with a non-empty videos list (an empty outputs map included), the call
\* fails in that step with 'No video output found', never with the timeout
\* error, and no further history request is issued.
C8_NoArtifactNotTimeout ==
  [][\A c \in Calls :
       /\ (seen'[c] = "job_no_video")
            => /\ promise'[c] = [state |-> "rejected", value |-> NoVideo, msg |-> E_NoVideo]
               /\ Failed(c, E_NoVideo)'
               /\ ~intervalArmed'[c]
       /\ (seen[c] = "job_no_video") => inFlight'[c] <= inFlight[c]]_vars

C8_Witness ==
  \E c \in Calls :
    /\ seen[c] = "job_no_video"
    /\ Failed(c, E_NoVideo)
    /\ ~timeoutArmed[c]

\* C9: a POST /prompt answer with a non-empty node_errors map makes
\* generateVideo reject with 'Workflow errors' before any history request or
\* timer of that call exists, and no other failure produces that error.
C9_SubmissionRejectedBeforePolling ==
  \A c \in Calls :
    /\ (queueSeen[c] = "node_errors")
         => /\ Failed(c, E_Workflow)
            /\ promise[c] = NoPromise
            /\ ~polled[c]
            /\ inFlight[c] = 0
            /\ ~intervalArmed[c]
            /\ ~timeoutArmed[c]
    /\ (Len(gvOutcome[c]) = 1 /\ gvOutcome[c][1].msg = E_Workflow)
         => queueSeen[c] = "node_errors"
    /\ (queueSeen[c] \in {"http_error", "type_error"})
         => (~Failed(c, E_Workflow) /\ Len(gvOutcome[c]) = 1)

C9_Witness ==
  \E c \in Calls :
    /\ queueSeen[c] = "node_errors"
    /\ Failed(c, E_Workflow)
    /\ hgPc = "idle"

\* C10: polling stops at the first of: a history answer with a video, a
\* non-2xx history answer (rejected at once, no retry), the timeout; after
\* that event no new history request is started.
StopEvents == {"job_video", "http_error", "timeout"}

C10_PollingStopsAtFirstEvent ==
  [][\A c \in Calls :
       /\ (seen'[c] \in StopEvents) => ~intervalArmed'[c]
       /\ (seen'[c] = "http_error") => Failed(c, E_Status)'
       /\ (seen[c] \in StopEvents)
            => (inFlight'[c] <= inFlight[c] /\ polled'[c] = polled[c])]_vars

\* a non-2xx answer stopped the polling while another request was outstanding
C10_Witness ==
  \E c \in Calls :
    /\ seen[c] = "http_error"
    /\ Failed(c, E_Status)
    /\ inFlight[c] > 0
    /\ timeoutArmed[c]

\* C11: once a generateVideo call has ended, with its artifact or with an
\* error, handleWebSocketMessage invokes no progress callback until the next
\* call starts.
C11_NoCallbackAfterEnd ==
  [][(cur > 0 /\ gvPc = "idle") => delivered' = delivered]_vars

\* the call that ran last returned an artifact
Succeeded == cur > 0 /\ gvPc = "idle" /\ Len(gvOutcome[cur]) = 1
             /\ gvOutcome[cur][1].kind = "value"

\* the steps of the call the ordering claim names
NamedSteps == SelectSeq(gvLog, LAMBDA e : e # "progress_30")

IsPrefix(a, b) == Len(a) <= Len(b) /\ a = SubSeq(b, 1, Len(a))

\* C12 as claimed: in a successful remote generation the workflow graph is
\* built, then 10% is reported, then the job is submitted, then 20% is
\* reported, then completion is awaited, then 100% is reported, then the
\* artifact locator is returned.
C12_OrderAsClaimed ==
  Succeeded =>
    NamedSteps = << "build_workflow", "progress_10", "post_prompt", "progress_20",
                    "await_completion", "progress_100", "return" >>

StepOrder ==
  << "progress_10", "build_workflow", "progress_20", "post_prompt",
     "await_completion", "progress_100", "return" >>

\* C12 as amended: each of the two reports precedes the step it announces: 10%
\* is reported, then the workflow graph is built, then 20% is reported, then
\* the job is submitted, then completion is awaited, then 100% is reported,
\* then the artifact locator is returned; a call that fails has taken a prefix
\* of these steps.
C12_ReportsPrecedeSteps ==
  /\ IsPrefix(NamedSteps, StepOrder)
  /\ Succeeded => NamedSteps = StepOrder

C12_Witness ==
  /\ Succeeded
  /\ gvLog = << "progress_10", "build_workflow", "progress_20", "post_prompt",
                "progress_30", "await_completion", "progress_100", "return" >>
  /\ ui.generatedVideo = gvOutcome[cur][1].value

\* x is a number between 0 and 100
PercentInRange(x) ==
  x.cls = "finite" /\ 0 <= x.num /\ x.num <= 100 * x.den

\* C13: every percent value the progress callback receives, and so the progress
\* the page holds, lies in 0..100, whatever message the pipeline sends.
C13_PercentInRange ==
  PercentInRange(ui.progress)

\* C14: a handleGenerate run invokes exactly one of the two backends, and the
\* remote session and the procedural engine are never active together.
C14_ExactlyOneBackend ==
  /\ (hgPc # "idle" \/ hgBackends # {}) => Cardinality(hgBackends) = 1
  /\ (hgPc = "remote") => hgBackends = {"remote"}
  /\ (hgPc = "proc") => (hgBackends = {"procedural"} /\ gvPc = "idle")
  /\ (gvPc # "idle") => hgPc = "remote"

\* a procedural run in progress on a page that ran a remote generation before
C14_Witness ==
  /\ hgPc = "proc"
  /\ hgBackends = {"procedural"}
  /\ cur > 0
  /\ Len(gvOutcome[cur]) = 1

C16_OneCallbackArmed ==
  [][/\ (cur' # cur) => progressCallback' = cur'
     /\ (delivered' # delivered)
          => (delivered'.cb = progressCallback /\ delivered'.cb = cur)
     /\ progressCallback' \in {0, cur'}]_vars

\* the first call returned with its callback armed; an event that arrived
\* during the second call went to the second call's callback
C16_Witness ==
  /\ cur = 2
  /\ Len(gvOutcome[1]) = 1
  /\ gvOutcome[1][1].kind = "value"
  /\ delivered.cb = 2
  /\ progressCallback = 2

\* open push-channel connections the instance has created and not closed
OpenConnections == (IF ws = "open" THEN 1 ELSE 0) + orphans

\* C17: at most one push-channel connection of the instance is open at any
\* time.
C17_OneOpenConnection ==
  OpenConnections <= 1

\* C18: no step of a generateVideo call, whether the call goes on, returns or
\* fails, closes an open connection or opens another one; a call that finds
\* the connection open submits on it without a handshake.
C18_CallsKeepConnection ==
  [][(ws = "open" /\ (gvPc' # gvPc \/ cur' # cur \/ gvOutcome' # gvOutcome))
       => (ws' = "open" /\ orphans' = orphans /\ gvPc' # "ws")]_vars

\* the first call failed after its handshake and left the connection open: the
\* second call starts on it
C18_Witness ==
  /\ cur = 2
  /\ Len(gvOutcome[1]) = 1
  /\ gvOutcome[1][1].kind = "error"
  /\ gvPc = "probe1"
  /\ ws = "open"

\* C19: the callback receives the events of the push channel in the order the
\* pipeline sent them and each at most once: the event handed over is the
\* oldest one in flight, it is later than every event handed over before, and
\* it is no longer in flight afterwards.
C19_DeliveredInOrderOnce ==
  [][/\ (delivered' # delivered)
          => (delivered'.id = chan[1] /\ delivered'.id > delivered.id)
     /\ \A i \in DOMAIN chan' : chan'[i] > delivered'.id
     /\ \A i \in DOMAIN chan' : \A j \in DOMAIN chan' : (i < j) => chan'[i] < chan'[j]]_vars

\* both events sent during the session have arrived, the second one last
C19_Witness ==
  /\ gvPc = "wait"
  /\ emitted = 2
  /\ chan = << >>
  /\ delivered = [id |-> 2, cb |-> 1]
  /\ ui.statusMessage = "Processing: value/max"

Taxonomy ==
  {"ServerUnavailable", "CorsBlocked", "SubmissionRejected", "RetrievalFailed",
   "NoArtifactProduced", "Timeout"}

\* The kind a caller can read off an error of the remote path.  The errors are
\* plain Error objects (or the TypeError of fetch, passed on as it is): all they
\* carry is their text.
KindOf(msg) ==
  CASE msg = E_NotRunning -> "ServerUnavailable"
    [] msg = E_Cors       -> "CorsBlocked"
    [] msg = E_Workflow   -> "SubmissionRejected"
    [] msg = E_Queue      -> "SubmissionRejected"
    [] msg = E_Status     -> "RetrievalFailed"
    [] msg = E_NoVideo    -> "NoArtifactProduced"
    [] msg = E_Timeout    -> "Timeout"
    [] OTHER              -> "none"

\* C20: every error a generateVideo call rejects with carries a kind of the
\* taxonomy, and the kind tells the failed stage: a submission that failed is
\* not reported with the error of a failed retrieval.
C20_ErrorsCarryKind ==
  \A c \in Calls :
    (Len(gvOutcome[c]) = 1 /\ gvOutcome[c][1].kind = "error")
      => /\ KindOf(gvOutcome[c][1].msg) \in Taxonomy
         /\ (queueSeen[c] \in {"http_error", "type_error", "node_errors"})
              => KindOf(gvOutcome[c][1].msg) = "SubmissionRejected"
         /\ (seen[c] \in {"http_error", "type_error"})
              => KindOf(gvOutcome[c][1].msg) = "RetrievalFailed"

\* C21: a request whose prompt is empty after trimming does no work.  A
\* handleGenerate that answers 'Please enter a prompt' starts no backend and
\* leaves isGenerating and progress as they were; a generateVideo call made on
\* the service with such a prompt issues no probe, takes no step and reports no
\* progress.
C21_BlankPromptDoesNothing ==
  [][/\ (ui'.toast = "enter_prompt" /\ ui.toast # "enter_prompt")
          => /\ hgPc' = hgPc /\ gvPc' = gvPc /\ cur' = cur
             /\ ui'.isGenerating = ui.isGenerating
             /\ ui'.progress = ui.progress
     /\ \A c \in Calls :
          (directPrompt'[c] # NotDirect /\ Trim(directPrompt'[c]) = << >>)
            => /\ (c = cur') => (gvPc' = "idle" /\ gvLog' = << >>)
               /\ queueSeen'[c] = "none"
               /\ ~polled'[c]]_vars

\* The input names of a node that hold a reference, and the nodes they name.
RefNames(node) == { k \in DOMAIN node.inputs : node.inputs[k].kind = "ref" }

Targets(node) == { node.inputs[k].node : k \in RefNames(node) }

NodeIds(g) == { g[i].id : i \in DOMAIN g }

NodeOf(g, id) == g[CHOOSE i \in DOMAIN g : g[i].id = id]

\* The nodes reached from the nodes of S along at most n references.
RECURSIVE ReachedFrom(_, _, _)
ReachedFrom(g, S, n) ==
  IF n = 0 THEN S
  ELSE ReachedFrom(g, S \cup UNION { Targets(NodeOf(g, id)) : id \in S \cap NodeIds(g) }, n - 1)

\* C22: the graph the builder returns is acyclic and every reference of every
\* node names a node of the graph, whatever the prompt, width and height.
C22_AcyclicAndResolved ==
  (workflow.graph # << >>) =>
    LET g == workflow.graph IN
      /\ \A i \in DOMAIN g : Targets(g[i]) \subseteq NodeIds(g)
      /\ \A i \in DOMAIN g : g[i].id \notin ReachedFrom(g, Targets(g[i]), Len(g))

C22_Witness ==
  /\ Len(workflow.graph) = 7
  /\ workflow.width # workflow.height
  /\ Trim(workflow.prompt) = << >>
  /\ workflowPrev.graph # << >>

\* C23: every reference of a node names a node declared before it.
C23_ReferencesPointBack ==
  (workflow.graph # << >>) =>
    LET g == workflow.graph IN
      \A i \in DOMAIN g : \A t \in Targets(g[i]) :
        \E j \in DOMAIN g : j < i /\ g[j].id = t

\* The graphs a and b are the same in every node, kind, parameter and reference,
\* the seed of the sampler aside.
SameButSeed(a, b) ==
  /\ Len(a) = Len(b)
  /\ \A i \in DOMAIN a :
       /\ a[i].id = b[i].id
       /\ a[i].class_type = b[i].class_type
       /\ DOMAIN a[i].inputs = DOMAIN b[i].inputs
       /\ \A k \in DOMAIN a[i].inputs :
            (a[i].class_type = "KSampler" /\ k = "seed") \/ a[i].inputs[k] = b[i].inputs[k]

Sampler(g) == g[CHOOSE i \in DOMAIN g : g[i].class_type = "KSampler"]

\* C24: two calls of the builder with the same prompt, width and height give
\* graphs that differ in the seed at most; the sizes are those of the sampler's
\* latent image and the prompt is the text of its positive conditioning.
C24_SameButSeed ==
  (workflow.graph # << >>) =>
    LET g == workflow.graph
        latent == NodeOf(g, Sampler(g).inputs.latent_image.node)
        positive == NodeOf(g, Sampler(g).inputs.positive.node)
    IN /\ latent.inputs.width = Lit(workflow.width)
       /\ latent.inputs.height = Lit(workflow.height)
       /\ positive.inputs.text = Lit(workflow.prompt)
       /\ (/\ workflowPrev.graph # << >>
           /\ workflowPrev.prompt = workflow.prompt
           /\ workflowPrev.width = workflow.width
           /\ workflowPrev.height = workflow.height)
            => SameButSeed(workflowPrev.graph, g)

C24_Witness ==
  /\ workflow.graph # << >> /\ workflowPrev.graph # << >>
  /\ workflowPrev.prompt = workflow.prompt /\ workflow.prompt # << >>
  /\ workflowPrev.width = workflow.width
  /\ workflowPrev.height = workflow.height /\ workflow.height # workflow.width
  /\ Sampler(workflow.graph).inputs.seed # Sampler(workflowPrev.graph).inputs.seed

\* The palette families in the order of the claim, with their palettes.
PaletteFamilies ==
  << [keywords |-> WarmKeywords, colors |-> WarmColors],
     [keywords |-> WaterKeywords, colors |-> WaterColors],
     [keywords |-> NatureKeywords, colors |-> NatureColors],
     [keywords |-> FireKeywords, colors |-> FireColors],
     [keywords |-> NightKeywords, colors |-> NightColors] >>

\* The families with a keyword that is a substring of the lower-cased prompt.
MatchingFamilies(families, prompt) ==
  { i \in DOMAIN families : IncludesAny(ToLowerCase(prompt), families[i].keywords) }

Least(S) == CHOOSE i \in S : \A j \in S : i <= j

\* C25: the palette is that of the first family, in the order warm, water,
\* nature, fire, night, with a keyword inside the lower-cased prompt, and the
\* default palette when there is none.
C25_PaletteFirstMatchWins ==
  (style # NoStyle) =>
    LET m == MatchingFamilies(PaletteFamilies, style.prompt) IN
      style.colors = (IF m = {} THEN DefaultColors ELSE PaletteFamilies[Least(m)].colors)

\* 'Sunset' and 'ocean' in one prompt: the warm palette
C25_Witness ==
  /\ Includes(style.prompt, << "O", "C", "E", "A", "N" >>)
  /\ Includes(ToLowerCase(style.prompt), << "s", "u", "n", "s", "e", "t" >>)
  /\ style.colors = WarmColors

\* The animation families in the order of the claim.
KindFamilies ==
  << [keywords |-> SpiralKeywords, kind |-> "spiral"],
     [keywords |-> ParticlesKeywords, kind |-> "particles"],
     [keywords |-> GeometricKeywords, kind |-> "geometric"],
     [keywords |-> WaveKeywords, kind |-> "wave"],
     [keywords |-> PulseKeywords, kind |-> "pulse"] >>

\* The later prompt is the earlier one with the word w added.
EditedBy(w) == style.prompt = stylePrev.prompt \o << " " >> \o w

\* C26: the kind is that of the first matching animation family and 'wave'
\* when none matches; the speed is 2 with a fast keyword, else 0.5 with a slow
\* keyword, else 1; a prompt that differs from another by a keyword of one
\* parameter has the same values of the other two parameters.
C26_KindAndSpeedIndependent ==
  (style # NoStyle) =>
    LET lowerPrompt == ToLowerCase(style.prompt)
        m == MatchingFamilies(KindFamilies, style.prompt)
    IN /\ style.animationType = (IF m = {} THEN "wave" ELSE KindFamilies[Least(m)].kind)
       /\ style.speed = (IF IncludesAny(lowerPrompt, FastKeywords) THEN Num(2)
                         ELSE IF IncludesAny(lowerPrompt, SlowKeywords) THEN Ratio(1, 2)
                         ELSE Num(1))
       /\ (stylePrev # NoStyle) =>
            \A w \in Words :
              EditedBy(w) =>
                /\ (ToLowerCase(w) \in PaletteKeywords)
                     => /\ style.animationType = stylePrev.animationType
                        /\ style.speed = stylePrev.speed
                /\ (ToLowerCase(w) \in KindKeywords)
                     => /\ style.colors = stylePrev.colors
                        /\ style.speed = stylePrev.speed
                /\ (ToLowerCase(w) \in SpeedKeywords)
                     => /\ style.colors = stylePrev.colors
                        /\ style.animationType = stylePrev.animationType

\* 'heartbeat' put after 'Sunset': the kind changes, palette and speed stay
C26_Witness ==
  /\ stylePrev # NoStyle
  /\ EditedBy(<< "h", "e", "a", "r", "t", "b", "e", "a", "t" >>)
  /\ stylePrev.animationType = "wave" /\ style.animationType = "pulse"
  /\ stylePrev.colors = WarmColors /\ style.colors = WarmColors
  /\ style.speed = Num(1)

\* C28: two generateFrame calls with the same style, width, height and
\* timeline position return the same raster, whatever was rendered in between.
C28_RenderDeterministic ==
  (/\ frame # NoFrame /\ frameSeen # NoFrame
   /\ frame.style = frameSeen.style
   /\ frame.width = frameSeen.width /\ frame.height = frameSeen.height
   /\ frame.progress = frameSeen.progress)
    => frame.image = frameSeen.image

\* the same render twice with another one in between
C28_Witness ==
  /\ frame # NoFrame /\ frameSeen # NoFrame
  /\ frame.style = frameSeen.style /\ frame.style.animationType = "spiral"
  /\ frame.width = frameSeen.width /\ frame.width # frame.height
  /\ frame.progress = frameSeen.progress /\ frame.progress = Ratio(1, 2)
  /\ frame.image = frameSeen.image
  /\ Len(frame.image.layers) = 2

\* A procedural generation was started, with the frame count N.
Requested(N) == pvResult.state # "none" /\ pvOptions.frames = N

\* C27: for a frame count N >= 1 generateFrames returns N frames, frame i
\* rendered for the position i / N; the positions rise strictly within 0..1,
\* and the feed loop puts the frames on the capture canvas in that order.
C27_FramesInTimelineOrder ==
  \A N \in 1..MaxFrames :
    Requested(N) =>
      /\ Len(frames) = N /\ Len(positions) = N
      /\ \A k \in 1..N :
           /\ positions[k] = Ratio(k - 1, N)
           /\ ~RatLess(positions[k], Num(0)) /\ ~RatLess(Num(1), positions[k])
           /\ frames[k] = GenerateFrame(NoCanvas, style, pvOptions.width, pvOptions.height,
                                        Ratio(k - 1, N))
      /\ \A k \in 1..(N - 1) : RatLess(positions[k], positions[k + 1])
      /\ Len(presented) <= N
      /\ \A k \in DOMAIN presented :
           presented[k].index = k - 1 /\ presented[k].image = frames[k]
      /\ (pvResult.state = "resolved") => Len(presented) = N

C27_Witness ==
  /\ Requested(3) /\ pvResult.state = "resolved"
  /\ positions = << Num(0), Ratio(1, 3), Ratio(2, 3) >>
  /\ Len(presented) = 3 /\ presented[3].image = frames[3]
  /\ frames[1] # frames[2]

\* C29: with a frame count of 0 or less the frame list is empty and the
\* encoder rejects it ('No frames to convert'): no recorder is started, no
\* timer is set, no frame is presented and no artifact comes out.
C29_EmptyInputRejected ==
  \A N \in (-1)..0 :
    Requested(N) =>
      /\ frames = << >>
      /\ pvResult.state = "rejected" /\ pvResult.cause = E_NoFrames
      /\ pvResult.url = NoVideo
      /\ recorder = "none"
      /\ pvPc = "idle"
      /\ presented = << >> /\ stoppedAt = -1

C29_Witness ==
  /\ Requested(0)
  /\ pvResult.state = "rejected" /\ pvResult.cause = E_NoFrames
  /\ recorder = "none" /\ pvPc = "idle"
  /\ frame # NoFrame

\* C30: the feed loop presents frame k at k intervals of 1000 / fps ms, each
\* frame once and in index order, and stops the recorder one interval after the
\* last frame: N intervals lie between the first frame and the stop.
C30_StopsOneIntervalAfterLast ==
  \A N \in 1..MaxFrames :
    Requested(N) =>
      LET interval == FrameInterval(pvOptions.fps) IN
        /\ \A k \in DOMAIN presented :
             presented[k].index = k - 1 /\ presented[k].at = (k - 1) * interval
        /\ (stoppedAt # -1) =>
             /\ Len(presented) = N
             /\ stoppedAt = presented[N].at + interval
             /\ stoppedAt - presented[1].at = N * interval

\* The errors framesToVideo rejects with.
ProcCauses == {E_NoFrames, E_MediaRecorder}

\* C31: the error the procedural generateVideo rejects with tells the caller
\* the kind of the failure: what is thrown for an empty frame list is not what
\* is thrown for an error of the recorder, and the other way round.
C31_ProceduralErrorsCarryKind ==
  (pvResult.state = "rejected") =>
    \A other \in ProcCauses \ {pvResult.cause} : ProcCatch(other) # pvResult.msg

\* C37: after mediaRecorder.onerror the promise of framesToVideo is rejected
\* with the recorder's error, no later frame is put on the capture canvas and
\* stop() is not called on the recorder.
C37_FeedStopsOnError ==
  (erroredAt # -1) =>
    /\ pvResult.state = "rejected" /\ pvResult.cause = E_MediaRecorder
    /\ \A k \in DOMAIN presented : presented[k].at <= erroredAt
    /\ stoppedAt = -1

\* The nodes of the scanned outputs that list at least one video.
WithVideo == { k \in DOMAIN jobOutputs : jobOutputs[k].hasVideos /\ jobOutputs[k].videos # << >> }

\* C32: the locator of a completed job comes from the first node, in iteration
\* order, with a non-empty videos list, and holds the filename, subfolder and
\* type of that node's first video; nodes with images only or with an empty
\* videos list are passed over.
C32_LocatorFromFirstVideoNode ==
  (locator.settle # "none" /\ WithVideo # {}) =>
    \E k \in WithVideo :
      /\ \A j \in WithVideo : k <= j
      /\ locator.settle = "resolve"
      /\ locator.url = << "h" >> \o ViewPath \o jobOutputs[k].videos[1].filename
                                 \o SubfolderKey \o jobOutputs[k].videos[1].subfolder
                                 \o TypeKey \o jobOutputs[k].videos[1].type

C32_Witness ==
  /\ locator.settle = "resolve"
  /\ DOMAIN jobOutputs = {1, 2}
  /\ jobOutputs[1].images = 1 /\ jobOutputs[1].hasVideos /\ jobOutputs[1].videos = << >>
  /\ Len(jobOutputs[2].videos) = 2 /\ jobOutputs[2].videos[1] # jobOutputs[2].videos[2]
  /\ serverUrl = << "h", "/", "/" >>
  /\ locator.url = << "h" >> \o ViewPath \o jobOutputs[2].videos[1].filename
                             \o SubfolderKey \o jobOutputs[2].videos[1].subfolder
                             \o TypeKey \o jobOutputs[2].videos[1].type

\* C33: a blob URL is revoked before VideoGenerator drops or replaces its
\* reference to it: a blob URL that is not revoked is the one generatedVideo
\* holds, whether the next generation was started by Generate or by Regenerate.
C33_BlobRevokedBeforeDropped ==
  objectUrlLive => ui.generatedVideo = BlobUrl

\* The call that ran last was rejected by its probe.
RejectedByProbe ==
  /\ cur > 0 /\ gvPc = "idle"
  /\ Len(gvOutcome[cur]) = 1
  /\ gvOutcome[cur][1].kind = "error" /\ gvOutcome[cur][1].msg = E_NotRunning

\* C34: a generateVideo call whose probe reports the server unavailable rejects
\* with the 'not running' error and has done nothing else: the step that
\* rejects opens no connection, and the call has submitted no job, armed no
\* poll or timeout timer, had no progress reported to its callback, and leaves
\* the callback slot empty.
C34_ProbeFailureLeavesNoTrace ==
  /\ [](RejectedByProbe =>
          /\ queueSeen[cur] = "none" /\ promise[cur] = NoPromise
          /\ ~intervalArmed[cur] /\ ~timeoutArmed[cur] /\ ~polled[cur]
          /\ gvLog = << >>
          /\ delivered.cb # cur
          /\ progressCallback = 0)
  /\ [][(~RejectedByProbe /\ RejectedByProbe') => (ws' = ws /\ orphans' = orphans)]_vars

\* C36: while a generateVideo call runs, a push event reaches the armed
\* callback only once the call has submitted its job: no event is forwarded
\* during the probe or the handshake, when whatever arrives belongs to an
\* earlier or a foreign job.
C36_OnlyEventsOfOwnJob ==
  [][(delivered' # delivered /\ gvPc # "idle") => gvPc \in {"queue", "wait"}]_vars

\* x >= p as JavaScript compares numbers
AtLeast(x, p) ==
  CASE x.cls = "nan" \/ p.cls = "nan" -> FALSE
    [] x.cls = "infinity"              -> TRUE
    [] p.cls = "infinity"              -> FALSE
    [] OTHER                           -> ~RatLess(x, p)

\* C35: within one remote generateVideo call the percent values its progress
\* callback receives never go down, whatever progress and executing messages
\* the pipeline sends.
C35_PercentNeverDecreases ==
  [][(cur' = cur /\ gvPc # "idle" /\ ui'.progress # ui.progress)
       => AtLeast(ui'.progress, ui.progress)]_vars

\* C38: every record runGenerationTest created has left 'pending' once the run
\* is over: after a successful generation it is 'completed' and holds the video
\* URL and the generation time, after a failed one it is 'failed'.  (Row i is
\* the row of call i: each run creates its row and then makes its call.)
C38_RecordsLeavePending ==
  (gtPc = "idle") =>
    \A i \in DOMAIN generation_history :
      LET row == generation_history[i]
          settled == gvOutcome[i][1]
      IN /\ row.status # "pending"
         /\ (settled.kind = "value")
              => /\ row.status = "completed"
                 /\ row.video_url = settled.value
                 /\ row.generation_time \in GenerationTimes
         /\ (settled.kind = "error") => row.status = "failed"

\* The pipeline(...) calls made by call c, as their devices in order.
LoadsOf(c) ==
  LET mine == SelectSeq(pipelineLoads, LAMBDA l : l.call = c)
  IN [i \in DOMAIN mine |-> mine[i].device]

\* Calls waiting for a load of theirs.
Loading == { c \in InitCalls : initPc[c] \in {"webgpu", "cpu"} }

\* C39: initialize loads the pipeline at most once per instance.  Once
\* isInitialized is set no call loads anything; a call loads on WebGPU and,
\* after that failed, once on the CPU; it throws only after both loads failed,
\* with isInitialized still false, so that a later call loads again; and of
\* two overlapping calls only one has a load of its own.
C39_LoadsAtMostOnce ==
  /\ [](/\ \A c \in InitCalls :
            /\ LoadsOf(c) \in {<< >>, << "webgpu" >>, << "webgpu", "cpu" >>}
            /\ (initPc[c] = "threw") => LoadsOf(c) = << "webgpu", "cpu" >>
       /\ (\E c \in InitCalls : initPc[c] \in {"done", "generating"}) => isInitialized
       /\ Cardinality(Loading) <= 1)
  /\ [][isInitialized => pipelineLoads' = pipelineLoads]_vars
  /\ [][\A c \in InitCalls : (initPc[c] # "threw" /\ initPc'[c] = "threw") => ~isInitialized']_vars

=============================================================================
